---- MODULE Spec2Model ----
(***************************************************************************)
(* Regular temperaments as blades of an exterior algebra                   *)
(* (frostburn/temperaments, src/temperament.ts).                           *)
(*                                                                         *)
(* A multivector over a basis of n factors is a function from the blade    *)
(* indices 0..2^n-1 to numbers; index m is the bit mask of the basis       *)
(* vectors of the blade (bit k set: basis vector e_k is a factor), the     *)
(* array layout of the algebra engine.  Integer algebras hold integers.    *)
(* Floating point quantities are modelled as exact rationals <<num, den>>, *)
(* den = 0 standing for the IEEE infinities (num # 0) and NaN (num = 0);   *)
(* rounding error of the floating point operations is not modelled.        *)
(***************************************************************************)
EXTENDS Integers, Sequences, FiniteSets, TLC

\* ------------------------------------------------------------------ bounds

\* Largest absolute value of a component of an input val, comma or prefix.
MaxCoef == 1

\* Largest absolute value of a component of a primitive value given to
\* canonize, and the largest common factor it is multiplied with.
CanonCoef == 7
MaxScale == 49

\* Number of canonize calls made in a row on one temperament.
MaxCalls == 2
MaxLen == 3
TuneLen == 2

\* ------------------------------------------------------- integer helpers

Abs(x) == IF x < 0 THEN -x ELSE x

\* Math.sign
Sign(x) == IF x > 0 THEN 1 ELSE IF x < 0 THEN -1 ELSE 0

\* xen-dev-utils gcd on non-negative integers (Euclid's algorithm).
RECURSIVE gcd(_, _)
gcd(a, b) == IF b = 0 THEN Abs(a) ELSE gcd(b, a % Abs(b))

Min(a, b) == IF a < b THEN a ELSE b

SetMin(S) == CHOOSE x \in S : \A y \in S : x <= y

RECURSIVE SumSet(_, _)
SumSet(f, S) ==
  IF S = {} THEN 0
  ELSE LET x == CHOOSE y \in S : TRUE IN f[x] + SumSet(f, S \ {x})

RECURSIVE GcdSet(_, _)
GcdSet(f, S) ==
  IF S = {} THEN 0
  ELSE LET x == CHOOSE y \in S : TRUE IN gcd(GcdSet(f, S \ {x}), Abs(f[x]))

\* xen-dev-utils dot of two arrays of the same length.
dot(a, b) == SumSet([i \in 1..Len(a) |-> a[i] * b[i]], 1..Len(a))

\* xen-dev-utils binomial.
RECURSIVE binomial(_, _)
binomial(n, k) ==
  IF k < 0 \/ k > n THEN 0
  ELSE IF k = 0 THEN 1
  ELSE (binomial(n - 1, k - 1) * n) \div k

\* ------------------------------------------------- the algebra engine
\* The multivector engine (package ts-geometric-algebra) the temperament
\* code is written against.

\* The sizes of the bases the model builds temperaments over.
AllDims == {2, 3, 4}

Blades(n) == 0..(2^n - 1)

FullMask(n) == 2^n - 1

\* The tables below are made once (f @@ <<>> is f, with every value computed).

\* The basis vectors of every blade index.
BitsOf == [m \in Blades(4) |-> {k \in 0..3 : (m \div (2^k)) % 2 = 1}] @@ <<>>

GradeOf == [m \in Blades(4) |-> Cardinality(BitsOf[m])] @@ <<>>

\* Sign of the product of two basis blades without a common factor, the blade
\* of the result written with ascending indices.
ReorderSign ==
  [i \in Blades(4) |-> [j \in Blades(4) |->
     IF Cardinality({p \in BitsOf[i] \X BitsOf[j] : p[1] > p[2]}) % 2 = 0
     THEN 1 ELSE -1] @@ <<>>] @@ <<>>

\* The pairs <<i, k - i>> of disjoint blades whose product is blade k.
Splits ==
  [k \in Blades(4) |-> {i \in 0..k : BitsOf[i] \subseteq BitsOf[k]}] @@ <<>>

\* The blade index with exactly the bits i and j do not share.
XorOf ==
  [i \in Blades(4) |-> [j \in Blades(4) |->
     SumSet([k \in 0..3 |->
               IF (k \in BitsOf[i]) # (k \in BitsOf[j]) THEN 2^k ELSE 0],
            0..3)] @@ <<>>] @@ <<>>

\* Lexicographic (ganja) order of the blades: by grade, then by index tuple.
Before(i, j) ==
  \/ GradeOf[i] < GradeOf[j]
  \/ /\ GradeOf[i] = GradeOf[j]
     /\ i # j
     /\ SetMin((BitsOf[i] \ BitsOf[j]) \cup (BitsOf[j] \ BitsOf[i])) \in BitsOf[i]

\* lexOrder[n][p]: the blade at position p of the lexicographic order.
lexOrder ==
  [n \in AllDims |-> [p \in 1..(2^n) |->
     CHOOSE m \in Blades(n) :
       Cardinality({x \in Blades(n) : Before(x, m)}) = p - 1] @@ <<>>] @@ <<>>

\* gradeOrder[n][g]: the blades of grade g in lexicographic order.
gradeOrder ==
  [n \in AllDims |-> [g \in 0..n |->
     SelectSeq(lexOrder[n], LAMBDA m : GradeOf[m] = g)] @@ <<>>] @@ <<>>

\* The components of an element are stored in a typed array: they are
\* computed once, when the element is made.
element(f) == f @@ <<>>

zero(n) == element([m \in Blades(n) |-> 0])

\* Algebra.scalar()
scalar(n) ==
  element(
   [m \in Blades(n) |-> IF m = 0 THEN 1 ELSE 0])

\* Algebra.pseudoscalar()
pseudoscalar(n) ==
  element(
   [m \in Blades(n) |-> IF m = FullMask(n) THEN 1 ELSE 0])

\* Algebra.basisBlade(k)
basisBlade(n, k) ==
  element(
   [m \in Blades(n) |-> IF m = 2^k THEN 1 ELSE 0])

\* Algebra.fromVector(values, grade): the components of one grade, given in
\* lexicographic order; every other grade is zero.
fromVector(n, values, grade) ==
  element(
    [m \in Blades(n) |->
       IF GradeOf[m] = grade
       THEN LET p == CHOOSE q \in 1..Len(gradeOrder[n][grade]) :
                       gradeOrder[n][grade][q] = m
            IN IF p <= Len(values) THEN values[p] ELSE 0
       ELSE 0])

\* AlgebraElement.vector(grade): the components of one grade in
\* lexicographic order.
vector(n, a, grade) ==
  [p \in 1..Len(gradeOrder[n][grade]) |-> a[gradeOrder[n][grade][p]]]

\* AlgebraElement.ganja(): all components in lexicographic order.
ganja(n, a) == [p \in 1..(2^n) |-> a[lexOrder[n][p]]]

\* AlgebraElement.isNil(): every component is zero.
isNil(n, a) == \A m \in Blades(n) : a[m] = 0

\* AlgebraElement.grades(): the grades that hold a nonzero component,
\* ascending.
grades(n, a) ==
  SelectSeq([g \in 1..(n + 1) |-> g - 1],
            LAMBDA g : \E m \in Blades(n) : GradeOf[m] = g /\ a[m] # 0)

\* AlgebraElement.neg()
neg(n, a) ==
  element(
   [m \in Blades(n) |-> -a[m]])

\* AlgebraElement.wedge(other): the exterior product.
wedge(n, a, b) ==
  element(
    [k \in Blades(n) |->
       SumSet([i \in Splits[k] |-> a[i] * b[k - i] * ReorderSign[i][k - i]],
              Splits[k])])

\* AlgebraElement.dual(): the complement, e_S wedge dual(e_S) = pseudoscalar.
dual(n, a) ==
  element(
    [k \in Blades(n) |->
       a[FullMask(n) - k] * ReorderSign[FullMask(n) - k][k]])

\* AlgebraElement.undual(): the inverse of dual.
undual(n, a) ==
  element(
    [k \in Blades(n) |->
       a[FullMask(n) - k] * ReorderSign[k][FullMask(n) - k]])

\* AlgebraElement.vee(other): the regressive product.
vee(n, a, b) == undual(n, wedge(n, dual(n, a), dual(n, b)))

\* AlgebraElement.dotL(other): the left contraction (all-positive metric).
dotL(n, a, b) ==
  element(
    [k \in Blades(n) |->
       SumSet([i \in {x \in Blades(n) : BitsOf[x] \cap BitsOf[k] = {}} |->
                 a[i] * b[k + i] * ReorderSign[i][k + i]],
              {x \in Blades(n) : BitsOf[x] \cap BitsOf[k] = {}})])

\* AlgebraElement.dot(other): the symmetric contraction (all-positive
\* metric): the products of basis blades one of which holds the other.
dotSym(n, a, b) ==
  element(
    [k \in Blades(n) |->
       SumSet([i \in {x \in Blades(n) :
                        \/ BitsOf[x] \subseteq BitsOf[XorOf[x][k]]
                        \/ BitsOf[XorOf[x][k]] \subseteq BitsOf[x]} |->
                 a[i] * b[XorOf[i][k]] * ReorderSign[i][XorOf[i][k]]],
              {x \in Blades(n) :
                 \/ BitsOf[x] \subseteq BitsOf[XorOf[x][k]]
                 \/ BitsOf[XorOf[x][k]] \subseteq BitsOf[x]})])

\* AlgebraElement.ps: the coefficient of the pseudoscalar.
ps(n, a) == a[FullMask(n)]

\* Math.floor(a / b), b not zero.
FloorDiv(a, b) == IF b > 0 THEN a \div b ELSE (-a) \div (-b)

\* xen-dev-utils extendedEuclid(a, b): coefA * a + coefB * b = gcd, the
\* quotients floored.
RECURSIVE extendedEuclidLoop(_, _, _, _, _, _)
extendedEuclidLoop(rOld, r, sOld, s, tOld, t) ==
  IF r = 0 THEN [coefA |-> sOld, coefB |-> tOld, gcd |-> rOld]
  ELSE extendedEuclidLoop(r, rOld - FloorDiv(rOld, r) * r,
                          s, sOld - FloorDiv(rOld, r) * s,
                          t, tOld - FloorDiv(rOld, r) * t)

extendedEuclid(a, b) == extendedEuclidLoop(a, b, 1, 0, 0, 1)

\* xen-dev-utils iteratedEuclid(params): Bezout coefficients of the
\* parameters, found one parameter at a time.
RECURSIVE iteratedEuclidLoop(_, _, _, _)
iteratedEuclidStep(params, i, coefs, ee) ==
  iteratedEuclidLoop(params, i + 1, ee.gcd,
                     Append([j \in DOMAIN coefs |-> coefs[j] * ee.coefA], ee.coefB))

iteratedEuclidLoop(params, i, a, coefs) ==
  IF i > Len(params) THEN coefs
  ELSE iteratedEuclidStep(params, i, coefs, extendedEuclid(a, params[i]))

iteratedEuclid(params) ==
  IF Len(params) = 0 THEN <<>>
  ELSE iteratedEuclidLoop(params, 2, params[1], <<1>>)

\* ------------------------------------------- IEEE-754 double arithmetic

\* Number of binary digits of x >= 1.
RECURSIVE bitLength(_)
bitLength(x) == IF x <= 0 THEN 0 ELSE 1 + bitLength(x \div 2)

\* 2^e mod g, by squaring while the square fits 32 bits.
RECURSIVE powMod(_, _)
powMod(e, g) ==
  IF e = 0 THEN 1 % g
  ELSE IF e % 2 = 0 /\ g < 46341 THEN (powMod(e \div 2, g) * powMod(e \div 2, g)) % g
  ELSE (2 * powMod(e - 1, g)) % g

\* The double (k * g) * (1 / g) for integers k, g >= 1 compared with k:
\* 0 when the product is exactly k, -1 when it is the double just below k,
\* 1 when it is the double just above.  1 / g is rounded to 53 significant
\* bits, M / 2^E with E = 52 + bitLength(g); M * g - 2^E = rho, so the exact
\* product is k + k * rho / 2^E, which is then rounded to the nearest double.
recipMulError(g, k) ==
  LET b    == bitLength(g)
      m    == powMod(52 + b, g)
      rho  == IF 2 * m < g THEN -m ELSE g - m
      f    == bitLength(k) - 1
      pow2 == (k = 2^f)
      err  == k * Abs(rho)
      half == IF rho < 0 /\ pow2 THEN 2^(f + b - 2) ELSE 2^(f + b - 1)
  IN IF m = 0 \/ err < half \/ (err = half /\ (k % 2 = 0 \/ pow2)) THEN 0
     ELSE IF rho < 0 THEN -1 ELSE 1

\* ----------------------------------------------------------- temperaments
\* A temperament: the size of its algebra, its value (an element of the
\* integer algebra) and its basis (the factors of its subgroup, or the
\* entries of its just intonation point for a FreeTemperament).

NoTemp == [algebra |-> 0, value |-> <<>>, subgroup |-> <<>>]

\* new Temperament(algebra, value, subgroup)
Temperament(n, value, subgroup) ==
  [algebra |-> n, value |-> value, subgroup |-> subgroup]

\* BaseTemperament.isNil
temperamentIsNil(T) == isNil(T.algebra, T.value)

\* this.value[i] *= firstSign / commonFactor on a component x that
\* commonFactor divides: the double x * (firstSign / commonFactor), stored in
\* the integer array of the algebra (truncated towards zero).
scaleComponent(x, firstSign, commonFactor) ==
  LET k == Abs(x) \div commonFactor
      e == IF k = 0 THEN 0 ELSE recipMulError(commonFactor, k)
  IN Sign(x) * firstSign * (IF e < 0 THEN k - 1 ELSE k)

\* The first loop of canonize: the running gcd of the components in array
\* order and the sign of the first nonzero component in lexicographic order.
RECURSIVE canonizeScan(_, _, _, _, _)
canonizeScan(n, value, i, firstSign, commonFactor) ==
  IF i = 2^n THEN [firstSign |-> firstSign, commonFactor |-> commonFactor]
  ELSE canonizeScan(n, value, i + 1,
         IF firstSign = 0 /\ ganja(n, value)[i + 1] # 0
         THEN Sign(ganja(n, value)[i + 1]) ELSE firstSign,
         gcd(commonFactor, Abs(value[i])))

\* BaseTemperament.canonize: the value of the temperament after the call.
canonizeScale(T, firstSign, commonFactor) ==
  IF commonFactor = 0 THEN T
  ELSE [T EXCEPT !.value =
          element([i \in Blades(T.algebra) |->
                     scaleComponent(T.value[i], firstSign, commonFactor)])]

canonizeScanned(T, s) == canonizeScale(T, s.firstSign, s.commonFactor)

canonize(T) == canonizeScanned(T, canonizeScan(T.algebra, T.value, 0, 0, 0))

\* A FreeTemperament: the basis is given by the sizes of its factors alone.
FreeTemperament(n, value, jip) == [algebra |-> n, value |-> value, jip |-> jip]

\* AlgebraElement.equals(other): the components are the same numbers.
equalsElement(n, a, b) == \A m \in Blades(n) : a[m] = b[m]

\* BaseTemperament.equals(other)
baseEquals(T, U) == equalsElement(T.algebra, T.value, U.value)

\* Subgroup.equals(other): the same basis factors in the same order.
subgroupEquals(a, b) == Len(a) = Len(b) /\ \A i \in 1..Len(a) : a[i] = b[i]

\* A faulty equals that compares the values alone.
equalsValuesOnly(T, U) == T.algebra = U.algebra /\ baseEquals(T, U)

\* Temperament.equals(other)
equals(T, U) ==
  IF ~subgroupEquals(T.subgroup, U.subgroup) THEN FALSE ELSE baseEquals(T, U)

\* The loop of FreeTemperament.equals over the sizes: FALSE at the first
\* difference.
RECURSIVE freeEqualsLoop(_, _, _)
freeEqualsLoop(a, b, i) ==
  IF i > Len(a) THEN TRUE
  ELSE IF a[i] # b[i] THEN FALSE
  ELSE freeEqualsLoop(a, b, i + 1)

\* FreeTemperament.equals(other)
freeEquals(T, U) ==
  IF Len(T.jip) # Len(U.jip) THEN FALSE
  ELSE IF ~freeEqualsLoop(T.jip, U.jip, 1) THEN FALSE
  ELSE baseEquals(T, U)

\* The value of grades()[0] when no grade is nonzero.
undefined == -1

\* A faulty getRank that counts the nonzero grades.
getRankCountingGrades(T) == Len(grades(T.algebra, T.value))

\* BaseTemperament.getRank: grades()[0].
getRank(T) ==
  LET g == grades(T.algebra, T.value) IN IF g = <<>> THEN undefined ELSE g[1]

\* Array.prototype.slice(0, end) of a sequence, 0 <= end.
slice(seq, end) == SubSeq(seq, 1, IF end < Len(seq) THEN end ELSE Len(seq))

\* A faulty rankPrefix that keeps the whole grade.
rankPrefixWhole(T, rank) ==
  IF rank = undefined /\ getRank(T) = undefined THEN <<>>
  ELSE vector(T.algebra, T.value, IF rank = undefined THEN getRank(T) ELSE rank)

\* BaseTemperament.rankPrefix(rank?): rank is undefined when omitted. A nil
\* value has no rank, and the engine has no components of grade undefined.
rankPrefix(T, rank) ==
  IF rank = undefined /\ getRank(T) = undefined THEN <<>>
  ELSE slice(vector(T.algebra, T.value,
                    IF rank = undefined THEN getRank(T) ELSE rank),
             binomial(T.algebra - 1,
                      (IF rank = undefined THEN getRank(T) ELSE rank) - 1))

\* The step shared by the folds: a zero next value is dropped and the
\* accumulated value kept.
keepUnlessNil(n, value, next) == IF isNil(n, next) THEN value ELSE next

\* A faulty loop of fromVals that keeps a zero wedge.
RECURSIVE fromValsLoopKeepingNil(_, _, _)
fromValsLoopKeepingNil(n, vals, value) ==
  IF vals = <<>> THEN value
  ELSE fromValsLoopKeepingNil(n, Tail(vals),
         wedge(n, value, fromVector(n, Head(vals), 1)))

\* The loop of fromVals: each val is promoted to a vector and wedged into
\* the accumulated value; a wedge that is zero is dropped and the previous
\* value kept.
RECURSIVE fromValsLoop(_, _, _)
fromValsLoop(n, vals, value) ==
  IF vals = <<>> THEN value
  ELSE fromValsLoop(n, Tail(vals),
         keepUnlessNil(n, value, wedge(n, value, fromVector(n, Head(vals), 1))))

\* Temperament.fromVals(vals, subgroup), the vals given as arrays.
fromVals(vals, subgroup) ==
  LET n == Len(subgroup)
  IN Temperament(n, fromValsLoop(n, vals, scalar(n)), subgroup)

\* A faulty loop of fromCommas that keeps a zero product.
RECURSIVE fromCommasLoopKeepingNil(_, _, _)
fromCommasLoopKeepingNil(n, commas, value) ==
  IF commas = <<>> THEN value
  ELSE fromCommasLoopKeepingNil(n, Tail(commas),
         vee(n, value, dual(n, fromVector(n, Head(commas), 1))))

\* The loop of fromCommas: the dual of each comma is combined into the
\* accumulated value with the regressive product; a zero result is dropped.
RECURSIVE fromCommasLoop(_, _, _)
fromCommasLoop(n, commas, value) ==
  IF commas = <<>> THEN value
  ELSE fromCommasLoop(n, Tail(commas),
         keepUnlessNil(n, value,
                       vee(n, value, dual(n, fromVector(n, Head(commas), 1)))))

\* A faulty fromCommas that starts from the scalar unit.
fromCommasOfScalar(commas, subgroup) ==
  Temperament(Len(subgroup),
              fromCommasLoop(Len(subgroup), commas, scalar(Len(subgroup))),
              subgroup)

\* Temperament.fromCommas(commas, subgroup), the commas given as monzos of
\* the subgroup.
fromCommas(commas, subgroup) ==
  LET n == Len(subgroup)
  IN Temperament(n, fromCommasLoop(n, commas, pseudoscalar(n)), subgroup)

\* FreeTemperament.fromVals(vals, jip)
freeFromVals(vals, jip) ==
  FreeTemperament(Len(jip), fromValsLoop(Len(jip), vals, scalar(Len(jip))), jip)

\* FreeTemperament.fromCommas(commas, jip)
freeFromCommas(commas, jip) ==
  FreeTemperament(Len(jip),
                  fromCommasLoop(Len(jip), commas, pseudoscalar(Len(jip))), jip)

\* ---------------------------------------------------- linear algebra
\* Linear dependence of integer vectors, stated without the exterior
\* algebra: by determinants.

RECURSIVE Det(_)
Det(M) ==
  IF Len(M) = 0 THEN 1
  ELSE IF Len(M) = 1 THEN M[1][1]
  ELSE SumSet(
         [j \in 1..Len(M) |->
            (IF j % 2 = 1 THEN 1 ELSE -1) * M[1][j] *
            Det([r \in 1..(Len(M) - 1) |->
                   [c \in 1..(Len(M) - 1) |->
                      M[r + 1][IF c < j THEN c ELSE c + 1]]])],
         1..Len(M))

\* The p-th element of a set of indices, in increasing order.
Nth(S, p) == CHOOSE i \in S : Cardinality({j \in S : j < i}) = p - 1

\* The vectors of list L at the indices S are linearly independent: some
\* square minor of the matrix they form is not zero.
IndependentAt(L, S) ==
  \/ S = {}
  \/ \E C \in SUBSET (1..Len(L[Nth(S, 1)])) :
       /\ Cardinality(C) = Cardinality(S)
       /\ Det([r \in 1..Cardinality(S) |->
                 [c \in 1..Cardinality(S) |-> L[Nth(S, r)][Nth(C, c)]]]) # 0

Independent(L) == IndependentAt(L, 1..Len(L))

\* The number of linearly independent vectors of list L.
RankOf(L) ==
  CHOOSE k \in 0..Len(L) :
    /\ \E S \in SUBSET (1..Len(L)) : Cardinality(S) = k /\ IndependentAt(L, S)
    /\ \A S \in SUBSET (1..Len(L)) : IndependentAt(L, S) => Cardinality(S) <= k

\* Vector v is a linear combination of the vectors of list L.
DependsOn(v, L) == RankOf(Append(L, v)) = RankOf(L)

\* The integer vectors of length n with components of absolute value at most
\* c.
Box(n, c) == [1..n -> (-c)..c]

ScaleVec(k, v) == [i \in DOMAIN v |-> k * v[i]]

\* ------------------------------------------------ prefix reconstruction

\* A faulty rounding that takes the floor.
RoundDown(num, den) == num \div den

\* Math.round of the quotient num / den, den > 0: the nearest integer, a
\* half rounded up.
Round(num, den) == (2 * num + den) \div (2 * den)

\* Subgroup.jip(): the sizes of the basis factors, here in cents rounded to
\* the nearest integer.
LogSize == [p \in {2, 3, 5, 7} |->
              CASE p = 2 -> 1200 [] p = 3 -> 1902 [] p = 5 -> 2786 [] p = 7 -> 3369]

subgroupJip(subgroup) == [i \in DOMAIN subgroup |-> LogSize[subgroup[i]]]

\* A faulty padding that places the prefix at the start of the array.
paddedWedgieFront(n, rank, wedgiePrefix) ==
  LET len == binomial(n, rank - 1)
  IN [p \in 1..len |-> IF p <= Len(wedgiePrefix) THEN wedgiePrefix[p] ELSE 0]

\* The prefix placed at the end of a zero array of the length of grade
\* rank - 1.
paddedWedgie(n, rank, wedgiePrefix) ==
  LET len == binomial(n, rank - 1)
      off == len - Len(wedgiePrefix)
  IN [p \in 1..len |-> IF p > off THEN wedgiePrefix[p - off] ELSE 0]

\* Temperament.fromPrefix(rank, wedgiePrefix, subgroup): the padded prefix
\* wedged with jip / jip[0], every component rounded.
fromPrefix(rank, wedgiePrefix, subgroup) ==
  LET n == Len(subgroup)
      jip == subgroupJip(subgroup)
      w == wedge(n, fromVector(n, paddedWedgie(n, rank, wedgiePrefix), rank - 1),
                    fromVector(n, jip, 1))
  IN Temperament(n, element([k \in Blades(n) |-> Round(w[k], jip[1])]), subgroup)

\* ------------------------------------------------------- meet and join

persistence == 100
thresholdDen == 10000

\* The vectors e_S . A for the basis blades e_S of grade one less than the
\* blade A: they span the subspace of A.
factorVectors(n, A) ==
  LET g == grades(n, A)[1]
      S == SelectSeq(lexOrder[n], LAMBDA m : GradeOf[m] = g - 1)
  IN [p \in DOMAIN S |->
        dotL(n, [m \in Blades(n) |-> IF m = S[p] THEN 1 ELSE 0], A)] @@ <<>>

RECURSIVE spanLoop(_, _, _)
spanLoop(n, vectors, value) ==
  IF vectors = <<>> THEN value
  ELSE spanLoop(n, Tail(vectors),
         keepUnlessNil(n, value, wedge(n, value, Head(vectors))))

\* AlgebraElement.scale(s)
scale(n, s, a) == element([k \in Blades(n) |-> s * a[k]])

\* A blade of the sum of the subspaces of the blades A and B.
joinBlade(n, A, B) == spanLoop(n, factorVectors(n, B), A)

\* A blade of the intersection of the subspaces of the blades A and B.
meetBlade(n, A, B) == undual(n, joinBlade(n, dual(n, A), dual(n, B)))

\* AlgebraElement.meetJoin of two nonzero blades: <<meet, join>>, each a
\* blade of the right subspace at a scale s the engine is free to choose.
meetJoin(n, A, B, s) ==
  << scale(n, s, meetBlade(n, A, B)), scale(n, s, joinBlade(n, A, B)) >>

\* The first component of smallest magnitude above the threshold; 0 stands
\* for Infinity, no component being above it. The threshold is the
\* fraction threshold[1] / threshold[2].
RECURSIVE minValueScan(_, _, _, _)
minValueScan(blade, i, minValue, threshold) ==
  IF i > Len(blade) THEN minValue
  ELSE minValueScan(blade, i + 1,
         IF /\ Abs(blade[i]) * threshold[2] > threshold[1]
            /\ (minValue = 0 \/ Abs(blade[i]) < Abs(minValue))
         THEN blade[i] ELSE minValue,
         threshold)

\* blade[i] * j / minValue is within the threshold of an integer. With
\* minValue left at Infinity the normalizer 1 / minValue is 0 and every
\* product is 0.
nearInteger(c, j, minValue, threshold) ==
  IF minValue = 0 THEN TRUE
  ELSE LET num == c * j * Sign(minValue)
           den == Abs(minValue)
       IN Abs(num - Round(num, den) * den) * threshold[2] <= threshold[1] * den

\* A faulty loop condition that also tries the multiplier persistence.
withinPersistenceInclusive(j, persist) == j <= persist

\* The condition of the search loop: for (let j = 1; j < persistence; ++j).
withinPersistence(j, persist) == j < persist

\* The first multiplier j from 1 below the persistence for which every
\* component is within the threshold of an integer; 0 when there is none.
RECURSIVE rescaleSearch(_, _, _, _, _)
rescaleSearch(blade, minValue, j, persist, threshold) ==
  IF ~withinPersistence(j, persist) THEN 0
  ELSE IF \A i \in DOMAIN blade : nearInteger(blade[i], j, minValue, threshold)
       THEN j
  ELSE rescaleSearch(blade, minValue, j + 1, persist, threshold)

\* Math.round(c * normalizer) for the normalizer j / minValue.
roundComponent(c, j, minValue) ==
  IF minValue = 0 THEN 0 ELSE Round(c * j * Sign(minValue), Abs(minValue))

\* BaseTemperament.rescaleValue of a nonzero value with integer components:
\* the rescaled element, or error set when the search fails.
rescaleRound(n, grade, blade, minValue, j) ==
  IF j = 0
  THEN [error |-> TRUE, value |-> zero(n)]
  ELSE [error |-> FALSE,
        value |-> fromVector(n,
                    [i \in DOMAIN blade |-> roundComponent(blade[i], j, minValue)],
                    grade)]

rescaleNormalize(n, grade, blade, minValue, persist, threshold) ==
  rescaleRound(n, grade, blade, minValue,
               rescaleSearch(blade, minValue, 1, persist, threshold))

rescaleBlade(n, grade, blade, persist, threshold) ==
  rescaleNormalize(n, grade, blade, minValueScan(blade, 1, 0, threshold),
                   persist, threshold)

rescaleGrade(n, value, grade, persist, threshold) ==
  rescaleBlade(n, grade, vector(n, value, grade) @@ <<>>, persist, threshold)

rescaleValue(n, value, persist, threshold) ==
  rescaleGrade(n, value, grades(n, value)[1], persist, threshold)

\* Temperament.valJoin(other, persistence, threshold): [error, result].
rescaled(T, r) ==
  [error |-> r.error, result |-> Temperament(T.algebra, r.value, T.subgroup)]

valJoin(T, U, s, persist, threshold) ==
  rescaled(T, rescaleValue(T.algebra,
                           meetJoin(T.algebra, T.value, U.value, s)[2],
                           persist, threshold))

\* Temperament.valMeet(other, persistence, threshold): [error, result].
valMeet(T, U, s, persist, threshold) ==
  rescaled(T, rescaleValue(T.algebra,
                           meetJoin(T.algebra, T.value, U.value, s)[1],
                           persist, threshold))

\* A faulty kernelMeet that leaves its arguments at their defaults.
kernelMeetDefaults(T, U, s, persist, threshold) ==
  valJoin(T, U, s, persistence, <<1, thresholdDen>>)

kernelMeet(T, U, s, persist, threshold) == valJoin(T, U, s, persist, threshold)

kernelJoin(T, U, s, persist, threshold) == valMeet(T, U, s, persist, threshold)

\* FreeTemperament.valJoin, valMeet, kernelMeet, kernelJoin: the same on a
\* temperament that carries the sizes of its basis factors.
freeRescaled(T, r) ==
  [error |-> r.error, result |-> FreeTemperament(T.algebra, r.value, T.jip)]

freeValJoin(T, U, s, persist, threshold) ==
  freeRescaled(T, rescaleValue(T.algebra,
                               meetJoin(T.algebra, T.value, U.value, s)[2],
                               persist, threshold))

freeValMeet(T, U, s, persist, threshold) ==
  freeRescaled(T, rescaleValue(T.algebra,
                               meetJoin(T.algebra, T.value, U.value, s)[1],
                               persist, threshold))

freeKernelMeet(T, U, s, persist, threshold) ==
  freeValJoin(T, U, s, persist, threshold)

freeKernelJoin(T, U, s, persist, threshold) ==
  freeValMeet(T, U, s, persist, threshold)

\* ---------------------------------------------------------- generators

\* A faulty numPeriodsGenerator without Math.abs.
numPeriodsGeneratorSigned(T) ==
  LET equaveProj == vector(T.algebra,
                           dotSym(T.algebra, basisBlade(T.algebra, 0), T.value), 1)
  IN <<dot(iteratedEuclid(equaveProj), equaveProj), iteratedEuclid(equaveProj)>>

\* BaseTemperament.numPeriodsGenerator: [numPeriods, generator]
numPeriodsGenerator(T) ==
  LET equaveProj == vector(T.algebra,
                           dotSym(T.algebra, basisBlade(T.algebra, 0), T.value), 1)
  IN <<Abs(dot(iteratedEuclid(equaveProj), equaveProj)), iteratedEuclid(equaveProj)>>

\* AlgebraElement.scale(1 / divisions) on an element of the integer algebra
\* whose components divisions divides: every component times the double
\* 1 / divisions. For divisions = 0 (an element of zeros) the products are
\* NaN, stored as 0.
scaleReciprocal(n, a, divisions) ==
  IF divisions = 0 THEN zero(n)
  ELSE element([m \in Blades(n) |-> scaleComponent(a[m], 1, divisions)])

\* The first loop of fractionalGenerators, from basis vector i on: the basis
\* vectors that can be wedged in without a division, the first with one.
RECURSIVE fractionalLoop(_, _, _, _)
fractionalPush(n, i, hyperwedge, pairs, multiwedge, divisions) ==
  IF ps(n, multiwedge) # 0
  THEN [hyperwedge |-> hyperwedge, pairs |-> pairs]
  ELSE IF (i = 0 /\ divisions # 0) \/ divisions = 1
       THEN fractionalLoop(n, i + 1, scaleReciprocal(n, multiwedge, divisions),
                           Append(pairs, <<element(vector(n, basisBlade(n, i), 1)), divisions>>))
       ELSE fractionalLoop(n, i + 1, hyperwedge, pairs)

fractionalMultiwedge(n, i, hyperwedge, pairs, multiwedge) ==
  fractionalPush(n, i, hyperwedge, pairs, multiwedge,
                 Abs(GcdSet(multiwedge, Blades(n))))

fractionalLoop(n, i, hyperwedge, pairs) ==
  IF i >= n THEN [hyperwedge |-> hyperwedge, pairs |-> pairs]
  ELSE fractionalMultiwedge(n, i, hyperwedge, pairs,
                            wedge(n, hyperwedge, basisBlade(n, i)))

\* params.push(hyperwedge.wedge(this.algebra.basisBlade(i)).ps)
fractionalParams(n, hyperwedge) ==
  [i \in 1..n |-> ps(n, wedge(n, hyperwedge, basisBlade(n, i - 1)))]

\* The terminal check: the leftover coefficient must have magnitude 1.
fractionalCheck(n, pairs, hyperwedge) ==
  IF Abs(ps(n, hyperwedge)) # 1
  THEN [error |-> TRUE, pairs |-> <<>>]
  ELSE [error |-> FALSE, pairs |-> pairs]

fractionalRescale(n, pairs, monzo, hyperwedge, divisions) ==
  fractionalCheck(n, Append(pairs, <<monzo, divisions>>),
                  scaleReciprocal(n, hyperwedge, divisions))

fractionalLast(n, hyperwedge, pairs, monzo) ==
  fractionalRescale(n, pairs, monzo, wedge(n, hyperwedge, fromVector(n, monzo, 1)),
                    Abs(GcdSet(wedge(n, hyperwedge, fromVector(n, monzo, 1)),
                               Blades(n))))

fractionalFinish(n, loop) ==
  fractionalLast(n, loop.hyperwedge, loop.pairs,
                 iteratedEuclid(fractionalParams(n, loop.hyperwedge)))

\* BaseTemperament.fractionalGenerators: the pairs [monzo, divisions], or the
\* error 'Failed to extract generators'.
fractionalGenerators(T) ==
  fractionalFinish(T.algebra,
                   fractionalLoop(T.algebra, 0, dual(T.algebra, T.value), <<>>))

\* -------------------------------------------------------------- tuning
\* The tuning is computed in doubles. The model computes it in exact
\* rationals <<numerator, denominator>> in lowest terms, the denominator
\* positive; <<1, 0>> and <<-1, 0>> are the two infinities and <<0, 0>> is
\* NaN. Rounding errors of the doubles are not modelled.

RNorm(p, q) ==
  IF q = 0 THEN <<Sign(p), 0>>
  ELSE <<(Sign(q) * p) \div gcd(Abs(p), Abs(q)), Abs(q) \div gcd(Abs(p), Abs(q))>>

RInt(x) == <<x, 1>>

\* Products and sums cancel common factors before they multiply.
RMulBy(a, b, g, h) ==
  IF g = 0 \/ h = 0 THEN RNorm(a[1] * b[1], a[2] * b[2])
  ELSE RNorm((a[1] \div g) * (b[1] \div h), (a[2] \div h) * (b[2] \div g))

RMul(a, b) == RMulBy(a, b, gcd(Abs(a[1]), b[2]), gcd(Abs(b[1]), a[2]))

RDiv(a, b) ==
  IF b[2] = 0
  THEN (IF b[1] = 0 \/ a[2] = 0 THEN <<0, 0>> ELSE <<0, 1>>)
  ELSE IF b[1] = 0 THEN <<Sign(a[1]), 0>>
  ELSE RMul(a, <<Sign(b[1]) * b[2], Abs(b[1])>>)

RAddBy(a, b, g) ==
  RNorm(a[1] * (b[2] \div g) + b[1] * (a[2] \div g), (a[2] \div g) * b[2])

RAdd(a, b) ==
  IF a[2] = 0 /\ b[2] = 0 THEN (IF a[1] = b[1] THEN a ELSE <<0, 0>>)
  ELSE IF a[2] = 0 THEN a
  ELSE IF b[2] = 0 THEN b
  ELSE RAddBy(a, b, gcd(a[2], b[2]))

RECURSIVE RSum(_, _)
RSum(f, S) ==
  IF S = {} THEN <<0, 1>>
  ELSE LET x == CHOOSE y \in S : TRUE IN RAdd(f[x], RSum(f, S \ {x}))

\* The dot product of a mapping with an integer vector.
RDot(mapping, c) ==
  RSum([i \in DOMAIN mapping |-> RMul(mapping[i], RInt(c[i]))], DOMAIN mapping)

\* new Clifford(value): the float64 copy of an integer element.
toFloat(n, a) == element([m \in Blades(n) |-> RInt(a[m])])

\* Clifford.fromVector(values) of floats: a vector.
floatVector(n, values) ==
  element([m \in Blades(n) |->
             IF m \in {2^(i - 1) : i \in 1..n}
             THEN values[CHOOSE i \in 1..n : m = 2^(i - 1)]
             ELSE <<0, 1>>])

\* The product of the weights of the basis vectors of blade m.
RECURSIVE bladeWeight(_, _, _)
bladeWeight(weights, m, i) ==
  IF i > Len(weights) THEN <<1, 1>>
  ELSE IF (i - 1) \in BitsOf[m]
       THEN RMul(weights[i], bladeWeight(weights, m, i + 1))
       ELSE bladeWeight(weights, m, i + 1)

\* AlgebraElement.applyWeights(weights): every basis vector scaled by its
\* weight.
applyWeights(n, a, weights) ==
  element([m \in Blades(n) |-> RMul(a[m], bladeWeight(weights, m, 1))])

\* The sign the reverse gives a blade of grade g.
reverseSign(g) == IF ((g * (g - 1)) \div 2) % 2 = 0 THEN 1 ELSE -1

invertBy(n, a, norm2) ==
  element([m \in Blades(n) |->
             RDiv(RMul(RInt(reverseSign(GradeOf[m])), a[m]), norm2)])

\* AlgebraElement.inverse() of a blade: its reverse over its squared norm.
inverse(n, a) ==
  invertBy(n, a, RSum([m \in Blades(n) |-> RMul(a[m], a[m])], Blades(n)))

\* AlgebraElement.dotL(other) of float elements.
floatDotL(n, a, b) ==
  element(
    [k \in Blades(n) |->
       RSum([i \in {x \in Blades(n) : BitsOf[x] \cap BitsOf[k] = {}} |->
               RMul(RMul(a[i], b[k + i]), RInt(ReorderSign[i][k + i]))],
            {x \in Blades(n) : BitsOf[x] \cap BitsOf[k] = {}})])

\* A faulty projection that contracts with the inverse only.
projectOntoOnce(n, jip_, weightedValue) ==
  floatDotL(n, jip_, inverse(n, weightedValue))

\* jip_.dotL(weightedValue.inverse()).dotL(weightedValue)
projectOnto(n, jip_, weightedValue) ==
  floatDotL(n, floatDotL(n, jip_, inverse(n, weightedValue)), weightedValue)

unweight(n, projected, weights) ==
  [i \in 1..n |-> RDiv(projected[2^(i - 1)], weights[i])]

\* A faulty calculateTenneyEuclid that leaves the weights in the result.
calculateTenneyEuclidWeighted(T, jip, weights) ==
  [i \in 1..T.algebra |->
     projectOnto(T.algebra,
                 floatVector(T.algebra,
                             [k \in DOMAIN jip |-> RMul(jip[k], weights[k])]),
                 applyWeights(T.algebra, toFloat(T.algebra, T.value), weights))
       [2^(i - 1)]]

\* BaseTemperament.calculateTenneyEuclid(jip, weights)
calculateTenneyEuclid(T, jip, weights) ==
  unweight(T.algebra,
           projectOnto(T.algebra,
                       floatVector(T.algebra,
                                   [i \in DOMAIN jip |-> RMul(jip[i], weights[i])]),
                       applyWeights(T.algebra, toFloat(T.algebra, T.value), weights)),
           weights)

\* Sizes are counted in fifths of the size of 2: a size of x is 12/5 * x
\* semitones and 1200/5 * x cents.
natsToSemitones(x) == RMul(x, <<12, 5>>)
natsToCents(x) == RMul(x, <<240, 1>>)

\* Integer sizes as floats.
Sizes(j) == [i \in DOMAIN j |-> RInt(j[i])]

purify(mapping, purifier) == [i \in DOMAIN mapping |-> RMul(mapping[i], purifier)]

convert(mapping, units) ==
  IF units = "nats" THEN mapping
  ELSE IF units = "semitones"
       THEN [i \in DOMAIN mapping |-> natsToSemitones(mapping[i])]
       ELSE [i \in DOMAIN mapping |-> natsToCents(mapping[i])]

\* A faulty end of getMapping that never applies the purifier.
purifiedNever(T, mapping, options) == convert(mapping, options.units)

\* The end of getMapping: the purifier unless the equaves are tempered, then
\* the units.
purified(T, mapping, options) ==
  convert(IF ~options.temperEquaves
          THEN purify(mapping, RDiv(T.jip[1], mapping[1]))
          ELSE mapping,
          options.units)

\* ------------------------------------------------ constrained tuning
\* calculateCTE works in the projective algebra PGA over the basis: one more
\* basis vector e0, of square zero, at bit 0 of the blade index; the basis
\* vector of factor i is at bit i.

\* AlgebraElement.sub(other)
floatSub(N, a, b) ==
  element([m \in Blades(N) |-> RAdd(a[m], RMul(<<-1, 1>>, b[m]))])

\* AlgebraElement.wedge(other) of float elements.
floatWedge(N, a, b) ==
  element(
    [k \in Blades(N) |->
       RSum([i \in {x \in Splits[k] : a[x] # <<0, 1>>} |->
               RMul(RMul(a[i], b[k - i]), RInt(ReorderSign[i][k - i]))],
            {x \in Splits[k] : a[x] # <<0, 1>>})])

\* AlgebraElement.dual() of float elements.
floatDual(N, a) ==
  element(
    [k \in Blades(N) |->
       RMul(a[FullMask(N) - k], RInt(ReorderSign[FullMask(N) - k][k]))])

\* AlgebraElement.mul(other) in PGA: the geometric product; a product of two
\* basis blades that share e0 is zero.
pgaMul(N, a, b) ==
  element(
    [k \in Blades(N) |->
       RSum([i \in {x \in Blades(N) :
                      a[x] # <<0, 1>> /\ ~(0 \in BitsOf[x] /\ 0 \in BitsOf[XorOf[x][k]])} |->
               RMul(RMul(a[i], b[XorOf[i][k]]), RInt(ReorderSign[i][XorOf[i][k]]))],
            {x \in Blades(N) :
               a[x] # <<0, 1>> /\ ~(0 \in BitsOf[x] /\ 0 \in BitsOf[XorOf[x][k]])})])

\* AlgebraElement.dotL(other) in PGA: the left contraction; a blade with e0
\* contracts to zero.
pgaDotL(N, a, b) ==
  element(
    [k \in Blades(N) |->
       RSum([i \in {x \in Blades(N) :
                      BitsOf[x] \cap BitsOf[k] = {} /\ ~(0 \in BitsOf[x])} |->
               RMul(RMul(a[i], b[k + i]), RInt(ReorderSign[i][k + i]))],
            {x \in Blades(N) : BitsOf[x] \cap BitsOf[k] = {} /\ ~(0 \in BitsOf[x])})])

\* AlgebraElement.inverse() of a blade in PGA: its reverse over its squared
\* norm, to which the components with e0 add nothing. A blade of norm zero
\* has no inverse: the division gives infinities and NaN.
pgaInverse(N, a) ==
  invertBy(N, a,
           RSum([m \in {x \in Blades(N) : ~(0 \in BitsOf[x])} |-> RMul(a[m], a[m])],
                {x \in Blades(N) : ~(0 \in BitsOf[x])}))

\* const dualWeights = [1, ...weights.map(weight => 1 / weight)]
dualWeights(weights) ==
  [i \in 1..(Len(weights) + 1) |->
     IF i = 1 THEN <<1, 1>> ELSE RDiv(<<1, 1>>, weights[i - 1])]

\* promote(element): the dual of the value, moved to the blades without e0
\* (components[i << 1] = element[i]), with the dual weights.
promote(n, value, weights) ==
  applyWeights(n + 1,
               [m \in Blades(n + 1) |->
                  IF m % 2 = 0 THEN RInt(dual(n, value)[m \div 2]) ELSE <<0, 1>>],
               dualWeights(weights))

\* PGA.fromVector([first, ...rest])
pgaVector(n, first, rest) ==
  element([m \in Blades(n + 1) |->
             IF m = 1 THEN first
             ELSE IF m \in {2^i : i \in 1..n}
                  THEN rest[CHOOSE i \in 1..n : m = 2^i]
                  ELSE <<0, 1>>])

\* point(x) = one.sub(e0.mul(PGA.fromVector([0, ...x]))).mul(pse)
point(n, x) ==
  pgaMul(n + 1,
         floatSub(n + 1, toFloat(n + 1, scalar(n + 1)),
                  pgaMul(n + 1, toFloat(n + 1, basisBlade(n + 1, 0)),
                         pgaVector(n, <<0, 1>>, x))),
         floatDual(n + 1, toFloat(n + 1, basisBlade(n + 1, 0))))

\* unpoint(point): the vector of the dual without its first component, over
\* that first component.
unpointVector(n, vec) == [i \in 1..n |-> RDiv(vec[2^i], vec[1])]

unpoint(n, p) == unpointVector(n, floatDual(n + 1, p))

\* proj(x, y) = y.inverse().mul(y.dotL(x))
proj(N, x, y) == pgaMul(N, pgaInverse(N, y), pgaDotL(N, y, x))

\* The plane of one constraint: [-distance, ...constraint] with the dual
\* weights, distance the just size of the constraint.
constraintPlane(n, jip, weights, constraint) ==
  applyWeights(n + 1,
               pgaVector(n, RMul(<<-1, 1>>, RDot(jip, constraint)),
                         [i \in 1..n |-> RInt(constraint[i])]),
               dualWeights(weights))

\* constraints.forEach: every constraint plane wedged into the temperament.
RECURSIVE constrain(_, _, _, _, _, _)
constrain(n, jip, weights, constraints, i, temperament) ==
  IF i > Len(constraints) THEN temperament
  ELSE constrain(n, jip, weights, constraints, i + 1,
                 floatWedge(n + 1, temperament,
                            constraintPlane(n, jip, weights, constraints[i])))

\* .map((c, i) => c / weights[i])
cteUnweight(c, weights) == [i \in DOMAIN c |-> RDiv(c[i], weights[i])]

\* BaseTemperament.calculateCTE(jip, weights, constraints)
calculateCTE(T, jip, weights, constraints) ==
  cteUnweight(
    unpoint(T.algebra,
            proj(T.algebra + 1,
                 point(T.algebra, [i \in DOMAIN jip |-> RMul(jip[i], weights[i])]),
                 constrain(T.algebra, jip, weights, constraints, 1,
                           promote(T.algebra, T.value, weights)))),
    weights)

defaultWeights(jip) == [i \in DOMAIN jip |-> RDiv(<<1, 1>>, jip[i])]

\* The mapping before the purifier: constrained when constraints are given.
tempered(T, options, weights) ==
  IF Len(options.constraints) # 0
  THEN calculateCTE(T, T.jip, weights, options.constraints)
  ELSE calculateTenneyEuclid(T, T.jip, weights)

\* FreeTemperament.getMapping(options); the sizes of this.jip as rationals,
\* the constraints in monzo form.
getMapping(T, options) ==
  purified(T,
           tempered(T, options,
                    IF options.weights = <<>> THEN defaultWeights(T.jip)
                    ELSE options.weights) @@ <<>>,
           options)

\* ------------------------------------------------------------------ state

VARIABLES
  this,   \* the temperament the calls are made on
  other,  \* a second temperament: the operand or the result of a call
  args,   \* the inputs the scenario was started with
  ret     \* the last call: its name, what it returned, values it saw

vars == <<this, other, args, ret>>

\* ------------------------------------------------------- canonize alone

\* The temperaments canonize is called on: single-grade integer values over
\* the basis 2.3, primitive components times a common factor.
CanonInit ==
  /\ \E g \in 0..2 :
       \E w \in [1..binomial(2, g) -> (-CanonCoef)..CanonCoef] :
         \E k \in 1..MaxScale :
           this = Temperament(2, fromVector(2, [p \in DOMAIN w |-> k * w[p]], g),
                              <<2, 3>>)
  /\ other = NoTemp
  /\ args = [value |-> this.value]
  /\ ret = [op |-> "new", calls |-> 0, before |-> this.value]

CanonCanonize ==
  /\ ret.calls < MaxCalls
  /\ this' = canonize(this)
  /\ ret' = [op |-> "canonize", calls |-> ret.calls + 1, before |-> this.value]
  /\ UNCHANGED <<other, args>>

CanonNext == CanonCanonize

SpecCanon == CanonInit /\ [][CanonNext]_vars

\* Every component divides exactly by d.
Divides(d, n, v) == \A m \in Blades(n) : v[m] % d = 0

\* The largest common divisor of the components of a nonzero value.
CommonDivisor(n, v) ==
  CHOOSE d \in 1..(CanonCoef * MaxScale) :
    /\ Divides(d, n, v)
    /\ \A e \in (d + 1)..(CanonCoef * MaxScale) : ~Divides(e, n, v)

\* The sign of the lexicographically first nonzero component.
LeadingSign(n, v) ==
  LET p == SetMin({q \in 1..(2^n) : v[lexOrder[n][q]] # 0})
  IN Sign(v[lexOrder[n][p]])

\* C2: canonize divides every component by (gcd of the components) * (sign
\* of the lexicographically first nonzero component), so the result has gcd
\* 1 and a positive leading component; an all-zero value is left as it is.
C2_CanonizeDividesByGcdAndSign ==
  ret.op = "canonize" =>
    LET n == this.algebra
        v == ret.before
    IN IF isNil(n, v) THEN this.value = v
       ELSE /\ \A m \in Blades(n) :
                 this.value[m] * CommonDivisor(n, v) * LeadingSign(n, v) = v[m]
            /\ CommonDivisor(n, this.value) = 1
            /\ LeadingSign(n, this.value) = 1

\* C3: a second canonize leaves the components as the first one left them.
C3_CanonizeIdempotent ==
  (ret.op = "canonize" /\ ret.calls >= 2) => this.value = ret.before

\* ------------------------------------ duality of the two constructions

\* Common factors the vals of the duality scenario are multiplied with.
DualScales == {1, 7}

\* Independent commas and independent vals that map every comma to zero
\* steps, together as many as the basis has factors.
DualInit ==
  /\ \E B \in {<<2, 3>>, <<2, 3, 5>>} :
       \E k \in 1..(Len(B) - 1) :
         \E C \in [1..k -> Box(Len(B), MaxCoef)] :
           \E V \in [1..(Len(B) - k) -> Box(Len(B), MaxCoef)] :
             \E f \in DualScales :
               /\ \A i \in 1..k : \A j \in 1..(Len(B) - k) : dot(V[j], C[i]) = 0
               /\ Independent(C)
               /\ Independent(V)
               /\ args = [subgroup |-> B, commas |-> C,
                          vals |-> [j \in DOMAIN V |-> ScaleVec(f, V[j])]]
  /\ this = NoTemp
  /\ other = NoTemp
  /\ ret = [op |-> "new", canonThis |-> FALSE, canonOther |-> FALSE]

DualFromCommas ==
  /\ this = NoTemp
  /\ this' = fromCommas(args.commas, args.subgroup)
  /\ ret' = [ret EXCEPT !.op = "fromCommas"]
  /\ UNCHANGED <<other, args>>

DualFromVals ==
  /\ other = NoTemp
  /\ other' = fromVals(args.vals, args.subgroup)
  /\ ret' = [ret EXCEPT !.op = "fromVals"]
  /\ UNCHANGED <<this, args>>

DualCanonizeThis ==
  /\ this # NoTemp
  /\ ~ret.canonThis
  /\ this' = canonize(this)
  /\ ret' = [ret EXCEPT !.op = "canonize", !.canonThis = TRUE]
  /\ UNCHANGED <<other, args>>

DualCanonizeOther ==
  /\ other # NoTemp
  /\ ~ret.canonOther
  /\ other' = canonize(other)
  /\ ret' = [ret EXCEPT !.op = "canonize", !.canonOther = TRUE]
  /\ UNCHANGED <<this, args>>

DualNext ==
  \/ DualFromCommas
  \/ DualFromVals
  \/ DualCanonizeThis
  \/ DualCanonizeOther

SpecDual == DualInit /\ [][DualNext]_vars

\* C1: the canonized temperament of the commas and the canonized temperament
\* of the vals that map them to zero are the same value up to global sign.
C1_Duality ==
  (ret.canonThis /\ ret.canonOther) =>
    \/ this.value = other.value
    \/ this.value = neg(this.algebra, other.value)

\* The two constructions give the same value up to a nonzero rational factor
\* before canonize (every 2x2 minor of the pair of component lists is zero).
DualProportional ==
  (this # NoTemp /\ other # NoTemp /\ ~ret.canonThis /\ ~ret.canonOther) =>
    /\ ~isNil(this.algebra, this.value)
    /\ ~isNil(this.algebra, other.value)
    /\ \A i, j \in Blades(this.algebra) :
         this.value[i] * other.value[j] = this.value[j] * other.value[i]

\* --------------------------------------- construction from a list

\* Vals and commas of the basis 2.3.5: the zero vector, the patent vals of
\* 5, 7, 12 and 19 equal divisions (the last the sum of the two before it),
\* the commas 81/80 and 128/125 and their product.
BuildPool ==
  { <<0, 0, 0>>, <<5, 8, 12>>, <<7, 11, 16>>, <<12, 19, 28>>, <<19, 30, 44>>,
    <<-4, 4, -1>>, <<7, 0, -3>>, <<3, 4, -4>> }

\* Vals and commas of the basis 2.3: every array of entries -1, 0 and 1.
BuildPlane == Box(2, 1)

\* Over 2.3 every list of vectors of the plane of up to one more element than
\* the basis has; over 2.3.5 the lists of vectors of the pool.
BuildInit ==
  /\ \/ \E len \in 0..3 : \E L \in [1..len -> BuildPlane] :
            args = [subgroup |-> <<2, 3>>, list |-> L]
     \/ \E len \in 0..MaxLen : \E L \in [1..len -> BuildPool] :
            args = [subgroup |-> <<2, 3, 5>>, list |-> L]
  /\ this = NoTemp
  /\ other = NoTemp
  /\ ret = [op |-> "new"]

BuildFromVals ==
  /\ ret.op = "new"
  /\ this' = fromVals(args.list, args.subgroup)
  /\ ret' = [op |-> "fromVals"]
  /\ UNCHANGED <<other, args>>

BuildFromCommas ==
  /\ ret.op = "new"
  /\ this' = fromCommas(args.list, args.subgroup)
  /\ ret' = [op |-> "fromCommas"]
  /\ UNCHANGED <<other, args>>

BuildNext ==
  \/ BuildFromVals
  \/ BuildFromCommas

SpecBuild == BuildInit /\ [][BuildNext]_vars

Front(L) == SubSeq(L, 1, Len(L) - 1)
Last(L) == L[Len(L)]

\* C5: a val that is a linear combination of the vals before it leaves the
\* value of fromVals as it was without it, and the grade of the value is the
\* number of linearly independent vals of the list.
C5_FromValsAbsorbs ==
  ret.op = "fromVals" =>
    /\ (args.list # <<>> /\ DependsOn(Last(args.list), Front(args.list))) =>
         this.value = fromVals(Front(args.list), args.subgroup).value
    /\ getRank(this) = RankOf(args.list)

C5_Witness ==
  /\ ret.op = "fromVals"
  /\ Len(args.list) = 3
  /\ RankOf(args.list) = 2
  /\ RankOf(Front(args.list)) = 2
  /\ \E i \in DOMAIN Last(args.list) : Last(args.list)[i] # 0
  /\ Last(args.list) # args.list[1]
  /\ Last(args.list) # args.list[2]
  /\ getRank(this) = 2

\* C6: a comma that is a linear combination of the commas before it leaves
\* the value of fromCommas as it was without it, and the grade of the value
\* is the size of the basis less the number of linearly independent commas.
C6_FromCommasAbsorbs ==
  ret.op = "fromCommas" =>
    /\ (args.list # <<>> /\ DependsOn(Last(args.list), Front(args.list))) =>
         this.value = fromCommas(Front(args.list), args.subgroup).value
    /\ getRank(this) = Len(args.subgroup) - RankOf(args.list)

C6_Witness ==
  /\ ret.op = "fromCommas"
  /\ Len(args.list) = 3
  /\ RankOf(args.list) = 2
  /\ RankOf(Front(args.list)) = 2
  /\ \E i \in DOMAIN Last(args.list) : Last(args.list)[i] # 0
  /\ Last(args.list) # args.list[1]
  /\ Last(args.list) # args.list[2]
  /\ getRank(this) = Len(args.subgroup) - 2

\* C7: of the empty list fromVals gives the scalar unit, of grade 0 and not
\* nil, and fromCommas gives the pseudoscalar unit, of the grade of the basis
\* size.
C7_EmptyLists ==
  args.list = <<>> =>
    /\ ret.op = "fromVals" =>
         /\ this.value = [m \in Blades(this.algebra) |-> IF m = 0 THEN 1 ELSE 0]
         /\ getRank(this) = 0
         /\ ~temperamentIsNil(this)
    /\ ret.op = "fromCommas" =>
         /\ this.value = [m \in Blades(this.algebra) |->
                            IF m = FullMask(this.algebra) THEN 1 ELSE 0]
         /\ getRank(this) = Len(args.subgroup)

C7_Witness ==
  /\ args.list = <<>>
  /\ ret.op = "fromCommas"
  /\ Len(args.subgroup) = 3
  /\ this.value[7] = 1

\* ------------------------------------------------ sequences of calls

\* Vals of 5, 7 and 12 equal divisions and the commas 81/80, 128/125 and
\* 25/24, as arrays over the first n factors of the basis 2.3.5.
LifeVals(n) ==
  { [i \in 1..n |-> v[i]] : v \in { <<5, 8, 12>>, <<7, 11, 16>>, <<12, 19, 28>> } }
LifeCommas(n) ==
  { [i \in 1..n |-> c[i]] : c \in { <<-4, 4, -1>>, <<7, 0, -3>>, <<-3, -1, 2>> } }
LifeBases == { <<2, 3>>, <<2, 3, 5>> }

\* Scales at which the engine may return a meet or a join.
LibraryScales == {-2, 3}

NoRet == [op |-> "new", error |-> FALSE, result |-> NoTemp, value |-> 0]

Init ==
  /\ this = NoTemp
  /\ other = NoTemp
  /\ \E B \in LifeBases : args = [subgroup |-> B]
  /\ ret = NoRet

\* A constructed temperament is held as the receiver of the later calls, the
\* next one as their other operand.
Hold(T) ==
  IF this = NoTemp
  THEN this' = T /\ other' = other
  ELSE other = NoTemp /\ other' = T /\ this' = this

FromVals ==
  /\ \E len \in 0..MaxLen : \E vals \in [1..len -> LifeVals(Len(args.subgroup))] :
       Hold(fromVals(vals, args.subgroup))
  /\ ret' = [NoRet EXCEPT !.op = "fromVals"]
  /\ UNCHANGED args

FromCommas ==
  /\ \E len \in 0..MaxLen : \E commas \in [1..len -> LifeCommas(Len(args.subgroup))] :
       Hold(fromCommas(commas, args.subgroup))
  /\ ret' = [NoRet EXCEPT !.op = "fromCommas"]
  /\ UNCHANGED args

FromPrefix ==
  /\ \E rank \in 1..Len(args.subgroup) :
       \E wedgiePrefix \in Box(binomial(Len(args.subgroup) - 1, rank - 1), MaxCoef) :
         Hold(fromPrefix(rank, wedgiePrefix, args.subgroup))
  /\ ret' = [NoRet EXCEPT !.op = "fromPrefix"]
  /\ UNCHANGED args

Canonize ==
  /\ this # NoTemp
  /\ this' = canonize(this)
  /\ ret' = [NoRet EXCEPT !.op = "canonize"]
  /\ UNCHANGED <<other, args>>

GetRank ==
  /\ this # NoTemp
  /\ ret' = [NoRet EXCEPT !.op = "getRank", !.value = getRank(this)]
  /\ UNCHANGED <<this, other, args>>

\* What a lattice operation leaves with the caller: the new temperament, or
\* the error thrown.
returned(name, r) ==
  [NoRet EXCEPT !.op = name, !.error = r.error,
                !.result = IF r.error THEN NoTemp ELSE r.result]

\* A call of one of the four lattice operations. With a zero operand the
\* engine's result is not determined by the source: the call either throws
\* or returns a zero value.
latticeCall(name, T, U, s) ==
  CASE name = "valJoin" -> valJoin(T, U, s, persistence, <<1, thresholdDen>>)
    [] name = "valMeet" -> valMeet(T, U, s, persistence, <<1, thresholdDen>>)
    [] name = "kernelJoin" -> kernelJoin(T, U, s, persistence, <<1, thresholdDen>>)
    [] name = "kernelMeet" -> kernelMeet(T, U, s, persistence, <<1, thresholdDen>>)

Lattice(name) ==
  /\ this # NoTemp
  /\ other # NoTemp
  /\ IF temperamentIsNil(this) \/ temperamentIsNil(other)
     THEN \/ ret' = [NoRet EXCEPT !.op = name, !.error = TRUE]
          \/ ret' = [NoRet EXCEPT !.op = name,
                       !.result = Temperament(this.algebra, zero(this.algebra),
                                              this.subgroup)]
     ELSE \E s \in LibraryScales :
            ret' = returned(name, latticeCall(name, this, other, s))
  /\ UNCHANGED <<this, other, args>>

ValJoin == Lattice("valJoin")
ValMeet == Lattice("valMeet")
KernelJoin == Lattice("kernelJoin")
KernelMeet == Lattice("kernelMeet")

\* The caller goes on with the temperament a lattice operation returned.
Adopt ==
  /\ ret.result # NoTemp
  /\ this' = ret.result
  /\ ret' = [NoRet EXCEPT !.op = "adopt"]
  /\ UNCHANGED <<other, args>>

Next ==
  \/ FromVals
  \/ FromCommas
  \/ FromPrefix
  \/ Canonize
  \/ GetRank
  \/ ValJoin
  \/ ValMeet
  \/ KernelJoin
  \/ KernelMeet
  \/ Adopt

Spec == Init /\ [][Next]_vars

Held == {T \in {this, other, ret.result} : T # NoTemp}

SingleGrade(T, r) == \A m \in Blades(T.algebra) : T.value[m] # 0 => GradeOf[m] = r

\* C8 as stated: every temperament's nonzero components are in one grade r
\* of 0..n, and getRank() returns that r.
C8_RankInvariant_Original ==
  /\ \A T \in Held : \E r \in 0..T.algebra : SingleGrade(T, r) /\ getRank(T) = r
  /\ ret.op = "getRank" => ret.value \in 0..this.algebra

\* C8: every temperament's nonzero components are in one grade of 0..n;
\* when the value is not zero getRank() returns that grade, and for a zero
\* value it returns undefined.
C8_RankInvariant ==
  /\ \A T \in Held :
       /\ \E r \in 0..T.algebra : SingleGrade(T, r)
       /\ ~temperamentIsNil(T) =>
            getRank(T) \in 0..T.algebra /\ SingleGrade(T, getRank(T))
       /\ temperamentIsNil(T) => getRank(T) = undefined
  /\ ret.op = "getRank" => ret.value = getRank(this)

C8_Witness ==
  /\ ret.op = "getRank"
  /\ temperamentIsNil(this)
  /\ ret.value = undefined

\* ------------------------------------------------------------ equality

EqualsBases == { <<2, 3>>, <<2, 3, 5>>, <<2, 3, 7>> }

\* Sizes of the basis factors of free temperaments.
EqualsJips == { Sizes(<<5, 8>>), Sizes(<<5, 8, 12>>), Sizes(<<5, 8, 14>>) }

\* The operands of a comparison: two temperaments of the same class, built
\* from vals or from commas and canonized or not.
EqualsLists(n) == UNION { [1..len -> LifeVals(n)] : len \in 0..MaxLen }

EqualsOperands(free) ==
  LET built ==
        IF free
        THEN UNION { { freeFromVals(L, J) : L \in EqualsLists(Len(J)) } \cup
                     { freeFromCommas(L, J) : L \in EqualsLists(Len(J)) }
                     : J \in EqualsJips }
        ELSE UNION { { fromVals(L, B) : L \in EqualsLists(Len(B)) } \cup
                     { fromCommas(L, B) : L \in EqualsLists(Len(B)) }
                     : B \in EqualsBases }
  IN built \cup { canonize(T) : T \in built }

EqualsInit ==
  /\ \E free \in BOOLEAN :
       /\ this \in EqualsOperands(free)
       /\ other \in EqualsOperands(free)
       /\ args = [free |-> free]
  /\ ret = [op |-> "new", value |-> FALSE]

Equals ==
  /\ ~args.free
  /\ ret' = [op |-> "equals", value |-> equals(this, other)]
  /\ UNCHANGED <<this, other, args>>

FreeEquals ==
  /\ args.free
  /\ ret' = [op |-> "equals", value |-> freeEquals(this, other)]
  /\ UNCHANGED <<this, other, args>>

EqualsNext ==
  \/ Equals
  \/ FreeEquals

SpecEquals == EqualsInit /\ [][EqualsNext]_vars

SameBasis(T, U) == IF args.free THEN T.jip = U.jip ELSE T.subgroup = U.subgroup

\* C4: equals returns true exactly when the two values are the same
\* component by component and the bases are equal, so never for equal values
\* over different bases; the call changes neither operand.
C4_Equals ==
  [][ ret'.op = "equals" =>
        /\ ret'.value = (SameBasis(this, other) /\ this.value = other.value)
        /\ this' = this
        /\ other' = other ]_vars

C4_Witness ==
  /\ ret.op = "equals"
  /\ ret.value = FALSE
  /\ this.value = other.value
  /\ ~SameBasis(this, other)
  /\ this.algebra = 3

\* -------------------------------------------------------------- tunings

\* Sizes of the factors of the bases 2.3 and 2.3.5, in fifths of the size of
\* 2.
TuneJips == { Sizes(<<5, 8>>), Sizes(<<5, 8, 12>>) }

\* Vals and commas over the first n factors of 2.3.5: the zero vector, the
\* first basis factor itself, 25/24, 10/9 and the vals of 2 and 3 equal
\* divisions.
TunePool(n) ==
  { [i \in 1..n |-> v[i]] :
      v \in { <<0, 0, 0>>, <<1, 0, 0>>, <<-3, -1, 2>>, <<1, -2, 1>>,
              <<2, 3, 5>>, <<3, 5, 7>> } }

TuneWeights(n) == { <<>>, [i \in 1..n |-> <<1, 1>>], [i \in 1..n |-> <<i, 1>>] }

TuneInit ==
  /\ this = NoTemp
  /\ other = NoTemp
  /\ \E J \in TuneJips : args = [jip |-> J, kind |-> "none", list |-> <<>>]
  /\ ret = [op |-> "new", error |-> FALSE, options |-> <<>>, mapping |-> <<>>]

TuneFromCommas ==
  /\ this = NoTemp
  /\ \E len \in 0..TuneLen : \E commas \in [1..len -> TunePool(Len(args.jip))] :
       /\ this' = freeFromCommas(commas, args.jip)
       /\ args' = [args EXCEPT !.kind = "commas", !.list = commas]
  /\ ret' = [ret EXCEPT !.op = "fromCommas"]
  /\ UNCHANGED other

TuneFromVals ==
  /\ this = NoTemp
  /\ \E len \in 0..TuneLen : \E vals \in [1..len -> TunePool(Len(args.jip))] :
       /\ this' = freeFromVals(vals, args.jip)
       /\ args' = [args EXCEPT !.kind = "vals", !.list = vals]
  /\ ret' = [ret EXCEPT !.op = "fromVals"]
  /\ UNCHANGED other

\* FreeTemperament.getMapping(options) without constraints: a request for a
\* prime mapping throws. The call changes nothing, so one call is followed
\* per temperament.
GetMapping ==
  /\ this # NoTemp
  /\ ret.op # "getMapping"
  /\ \E w \in TuneWeights(this.algebra) : \E te, pm \in BOOLEAN :
       \E u \in {"nats", "semitones", "cents"} :
         LET options == [weights |-> w, temperEquaves |-> te,
                         primeMapping |-> pm, units |-> u, constraints |-> <<>>]
         IN ret' = [op |-> "getMapping", error |-> pm, options |-> options,
                    mapping |-> IF pm THEN <<>> ELSE getMapping(this, options)]
  /\ UNCHANGED <<this, other, args>>

TuneNext ==
  \/ TuneFromCommas
  \/ TuneFromVals
  \/ GetMapping

SpecTune == TuneInit /\ [][TuneNext]_vars

\* The mapping of the last call before the purifier: the same call with
\* tempered equaves, in nats.
Tempered ==
  getMapping(this, [ret.options EXCEPT !.temperEquaves = TRUE, !.units = "nats"])

Mapped == ret.op = "getMapping" /\ ~ret.error /\ ret.options.units = "nats"

\* C9 as stated: the mapping of a temperament built from commas sends every
\* one of the commas to zero, with tempered or with pure equaves.
C9_KernelOrthogonality_Original ==
  (Mapped /\ args.kind = "commas") =>
    \A i \in DOMAIN args.list : RDot(ret.mapping, args.list[i]) = <<0, 1>>

\* C9: the mapping of a temperament built from commas sends every one of
\* the commas to zero when the equaves are tempered, and with pure equaves
\* when the first component of the tempered mapping is not zero.
C9_KernelOrthogonality ==
  (Mapped /\ args.kind = "commas"
          /\ (ret.options.temperEquaves \/ Tempered[1] # <<0, 1>>)) =>
    \A i \in DOMAIN args.list : RDot(ret.mapping, args.list[i]) = <<0, 1>>

C9_Witness ==
  /\ Mapped
  /\ args.kind = "commas"
  /\ ~ret.options.temperEquaves
  /\ this.algebra = 3
  /\ getRank(this) = 2
  /\ args.list[1][3] # 0
  /\ ret.mapping[2] # this.jip[2]
  /\ ret.mapping[2][2] # 0

C13_RankZeroIsJust ==
  (Mapped /\ args.kind = "vals" /\ args.list = <<>>
          /\ ret.options.temperEquaves) =>
    ret.mapping = this.jip

MaxConstraints == 2

\* The lists the temperaments are built from, over the first n factors of
\* 2.3.5: none, 25/24 or the val of 2 equal divisions, 10/9 or the val of 3,
\* and both.
CteLists(n) ==
  { [p \in DOMAIN L |-> [i \in 1..n |-> L[p][i]]] :
      L \in { <<>>, << <<-3, -1, 2>> >>, << <<1, -2, 1>> >>,
               << <<-3, -1, 2>>, <<1, -2, 1>> >>,
               << <<2, 3, 5>> >>, << <<2, 3, 5>>, <<3, 5, 7>> >> } }

\* The constraints: the first basis factor 2, 3/2 and the last basis factor.
CteConstraints(n) ==
  { [i \in 1..n |-> c[i]] : c \in { <<1, 0, 0>>, <<-1, 1, 0>> } } \cup
  { [i \in 1..n |-> IF i = n THEN 1 ELSE 0] }

CteInit ==
  /\ this = NoTemp
  /\ other = NoTemp
  /\ \E J \in TuneJips : args = [jip |-> J, kind |-> "none", list |-> <<>>]
  /\ ret = [op |-> "new", error |-> FALSE, options |-> <<>>, mapping |-> <<>>]

CteFromCommas ==
  /\ this = NoTemp
  /\ \E commas \in CteLists(Len(args.jip)) :
       /\ this' = freeFromCommas(commas, args.jip)
       /\ args' = [args EXCEPT !.kind = "commas", !.list = commas]
  /\ ret' = [ret EXCEPT !.op = "fromCommas"]
  /\ UNCHANGED other

CteFromVals ==
  /\ this = NoTemp
  /\ \E vals \in CteLists(Len(args.jip)) :
       /\ this' = freeFromVals(vals, args.jip)
       /\ args' = [args EXCEPT !.kind = "vals", !.list = vals]
  /\ ret' = [ret EXCEPT !.op = "fromVals"]
  /\ UNCHANGED other

\* FreeTemperament.getMapping(options) with constraints in monzo form, in
\* nats. Nothing in it throws for any number of constraints.
CteGetMapping ==
  /\ this # NoTemp
  /\ ret.op # "getMapping"
  /\ \E w \in {<<>>, [i \in 1..this.algebra |-> <<1, 1>>]} : \E te \in BOOLEAN :
       \E len \in 1..MaxConstraints :
         \E K \in [1..len -> CteConstraints(this.algebra)] :
           LET options == [weights |-> w, temperEquaves |-> te,
                           primeMapping |-> FALSE, units |-> "nats",
                           constraints |-> K]
           IN ret' = [op |-> "getMapping", error |-> FALSE, options |-> options,
                      mapping |-> getMapping(this, options)]
  /\ UNCHANGED <<this, other, args>>

CteNext ==
  \/ CteFromCommas
  \/ CteFromVals
  \/ CteGetMapping

SpecCTE == CteInit /\ [][CteNext]_vars

\* The last call was a constrained getMapping.
Constrained == ret.op = "getMapping" /\ Len(ret.options.constraints) > 0

\* Every constraint of the last call has its just size in the mapping.
Pure ==
  \A i \in DOMAIN ret.options.constraints :
    RDot(ret.mapping, ret.options.constraints[i]) =
      RDot(this.jip, ret.options.constraints[i])

Finite(mapping) == \A i \in DOMAIN mapping : mapping[i][2] # 0

\* C11: with at most as many constraints as the rank, every constraint maps
\* to its just size, with tempered and with pure equaves. Stated of the
\* calls that return a mapping of numbers: constraints that depend on each
\* other or on the commas give a mapping of NaN.
C11_EigenmonzosPure ==
  (Constrained /\ Len(ret.options.constraints) <= getRank(this)
               /\ Finite(ret.mapping)) => Pure

\* With tempered equaves every constraint of a mapping that is a mapping of
\* numbers has its just size.
CteTemperedPure ==
  (Constrained /\ ret.options.temperEquaves /\ Finite(ret.mapping)) => Pure

\* C12: a call with more constraints than the rank throws.
C12_OverConstrainedThrows ==
  (Constrained /\ Len(ret.options.constraints) > getRank(this)) => ret.error

\* ------------------------------------------- periods and generators

GenLen == 2

\* The subgroups 2.3, 2.3.5 and 2.3.5.7.
GenSubgroups == { <<2, 3>>, <<2, 3, 5>>, <<2, 3, 5, 7>> }

\* The commas, cut to the subgroup: 81/80, 256/243, 128/125, 225/224 and
\* one whose components beyond the first share the factor 49.
GenCommas(n) ==
  { [i \in 1..n |-> v[i]] :
      v \in { <<-4, 4, -1, 0>>, <<8, -5, 0, 0>>, <<7, 0, -3, 0>>,
              <<-5, 2, 2, -1>>, <<1, 49, 98, 0>> } }

\* The vals of 5, 7 and 12 divisions of the octave, cut to the subgroup.
GenVals(n) ==
  { [i \in 1..n |-> v[i]] :
      v \in { <<5, 8, 12, 14>>, <<7, 11, 16, 20>>, <<12, 19, 28, 34>> } }

GenLists(pool) == UNION { [1..len -> pool] : len \in 0..GenLen }

GenInit ==
  /\ this = NoTemp
  /\ other = NoTemp
  /\ \E B \in GenSubgroups : args = [subgroup |-> B, kind |-> "none", list |-> <<>>]
  /\ ret = [op |-> "new", error |-> FALSE, result |-> <<>>]

GenFromCommas ==
  /\ this = NoTemp
  /\ \E commas \in GenLists(GenCommas(Len(args.subgroup))) :
       /\ this' = fromCommas(commas, args.subgroup)
       /\ args' = [args EXCEPT !.kind = "commas", !.list = commas]
  /\ ret' = [ret EXCEPT !.op = "fromCommas"]
  /\ UNCHANGED other

GenFromVals ==
  /\ this = NoTemp
  /\ \E vals \in GenLists(GenVals(Len(args.subgroup))) :
       /\ this' = fromVals(vals, args.subgroup)
       /\ args' = [args EXCEPT !.kind = "vals", !.list = vals]
  /\ ret' = [ret EXCEPT !.op = "fromVals"]
  /\ UNCHANGED other

GenCanonize ==
  /\ ret.op \in {"fromCommas", "fromVals"}
  /\ this' = canonize(this)
  /\ ret' = [ret EXCEPT !.op = "canonize"]
  /\ UNCHANGED <<other, args>>

GenNumPeriodsGenerator ==
  /\ ret.op \in {"fromCommas", "fromVals", "canonize"}
  /\ ret' = [op |-> "numPeriodsGenerator", error |-> FALSE,
             result |-> numPeriodsGenerator(this)]
  /\ UNCHANGED <<this, other, args>>

GenFractionalGenerators ==
  /\ ret.op \in {"fromCommas", "fromVals", "canonize"}
  /\ ret' = [op |-> "fractionalGenerators",
             error |-> fractionalGenerators(this).error,
             result |-> fractionalGenerators(this).pairs]
  /\ UNCHANGED <<this, other, args>>

GenNext ==
  \/ GenFromCommas
  \/ GenFromVals
  \/ GenCanonize
  \/ GenNumPeriodsGenerator
  \/ GenFractionalGenerators

SpecGen == GenInit /\ [][GenNext]_vars

\* The contraction of the first basis vector with a rank-2 value, component
\* by component: e0 . (w e0^ej) = w ej.
EquaveProj(T) ==
  [i \in 1..T.algebra |-> IF i = 1 THEN 0 ELSE T.value[1 + 2 ^ (i - 1)]]

\* C15: numPeriodsGenerator of a rank-2 temperament returns [d, g] with g a
\* vector of as many integers as the subgroup has factors and
\* d = |dot(g, p)|, p the contraction of the first basis vector with the
\* value; d is the GCD of the components of p, at least 1 when p is not
\* zero, and it is 5 for the comma 256/243 and 3 for 128/125 in 2.3.5.
C15_NumPeriods ==
  (ret.op = "numPeriodsGenerator" /\ getRank(this) = 2) =>
    /\ Len(ret.result[2]) = this.algebra
    /\ ret.result[1] = Abs(dot(ret.result[2], EquaveProj(this)))
    /\ ret.result[1] = Abs(GcdSet(EquaveProj(this), 1..this.algebra))
    /\ (\E i \in 1..this.algebra : EquaveProj(this)[i] # 0) => ret.result[1] >= 1
    /\ (args.kind = "commas" /\ args.list = << <<8, -5, 0>> >>) => ret.result[1] = 5
    /\ (args.kind = "commas" /\ args.list = << <<7, 0, -3>> >>) => ret.result[1] = 3

C15_Witness ==
  /\ ret.op = "numPeriodsGenerator"
  /\ getRank(this) = 2
  /\ canonize(this) = this
  /\ args.kind = "commas"
  /\ args.list = << <<8, -5, 0>> >>
  /\ ret.result = <<5, <<0, 0, 1>>>>

\* The wedge of an element with the monzos of the pairs from the i-th on.
RECURSIVE wedgeMonzos(_, _, _, _)
wedgeMonzos(n, a, pairs, i) ==
  IF i > Len(pairs) THEN a
  ELSE wedgeMonzos(n, wedge(n, a, fromVector(n, pairs[i][1], 1)), pairs, i + 1)

\* The product of the divisions of the pairs from the i-th on.
RECURSIVE divisionsProduct(_, _)
divisionsProduct(pairs, i) ==
  IF i > Len(pairs) THEN 1 ELSE pairs[i][2] * divisionsProduct(pairs, i + 1)

\* The wedge of dual(value) with every monzo / divisions has a pseudoscalar
\* coefficient of magnitude exactly 1.
Unimodular(T, pairs) ==
  Abs(ps(T.algebra, wedgeMonzos(T.algebra, dual(T.algebra, T.value), pairs, 1)))
    = divisionsProduct(pairs, 1)

\* C16: when fractionalGenerators returns, it returns exactly rank pairs
\* [monzo, divisions] with positive integer divisions, and the wedge of
\* dual(value) with all the monzo / divisions has a pseudoscalar coefficient
\* of magnitude exactly 1; otherwise it throws and returns nothing.
C16_FractionalGenerators ==
  (ret.op = "fractionalGenerators") =>
    IF ret.error THEN ret.result = <<>>
    ELSE /\ Len(ret.result) = getRank(this)
         /\ \A i \in DOMAIN ret.result : ret.result[i][2] >= 1
         /\ Unimodular(this, ret.result)

\* ---------------------------------------------------- rank prefixes

PrefixInit ==
  /\ this = NoTemp
  /\ other = NoTemp
  /\ \E B \in GenSubgroups : args = [subgroup |-> B, kind |-> "none", list |-> <<>>]
  /\ ret = [op |-> "new", rank |-> undefined, result |-> <<>>, canonized |-> FALSE]

PrefixFromCommas ==
  /\ this = NoTemp
  /\ \E commas \in GenLists(GenCommas(Len(args.subgroup))) :
       /\ this' = fromCommas(commas, args.subgroup)
       /\ args' = [args EXCEPT !.kind = "commas", !.list = commas]
  /\ ret' = [ret EXCEPT !.op = "fromCommas"]
  /\ UNCHANGED other

PrefixFromVals ==
  /\ this = NoTemp
  /\ \E vals \in GenLists(GenVals(Len(args.subgroup))) :
       /\ this' = fromVals(vals, args.subgroup)
       /\ args' = [args EXCEPT !.kind = "vals", !.list = vals]
  /\ ret' = [ret EXCEPT !.op = "fromVals"]
  /\ UNCHANGED other

PrefixCanonize ==
  /\ ret.op \in {"fromCommas", "fromVals"}
  /\ this' = canonize(this)
  /\ ret' = [ret EXCEPT !.op = "canonize", !.canonized = TRUE]
  /\ UNCHANGED <<other, args>>

\* this.rankPrefix(rank), rank omitted or any grade of the algebra.
PrefixRankPrefix ==
  /\ ret.op \in {"fromCommas", "fromVals", "canonize"}
  /\ \E rank \in {undefined} \cup 0..this.algebra :
       ret' = [ret EXCEPT !.op = "rankPrefix", !.rank = rank,
                          !.result = rankPrefix(this, rank)]
  /\ UNCHANGED <<this, other, args>>

\* Temperament.fromPrefix(rank, prefix, subgroup) on the prefix just taken,
\* with the rank of this when the prefix was taken by default.
PrefixFromPrefix ==
  /\ ret.op = "rankPrefix"
  /\ (IF ret.rank = undefined THEN getRank(this) ELSE ret.rank) >= 1
  /\ other' = fromPrefix(IF ret.rank = undefined THEN getRank(this) ELSE ret.rank,
                         ret.result, args.subgroup)
  /\ ret' = [ret EXCEPT !.op = "fromPrefix"]
  /\ UNCHANGED <<this, args>>

PrefixCanonizeOther ==
  /\ ret.op = "fromPrefix"
  /\ other' = canonize(other)
  /\ ret' = [ret EXCEPT !.op = "canonizeOther"]
  /\ UNCHANGED <<this, args>>

PrefixNext ==
  \/ PrefixFromCommas
  \/ PrefixFromVals
  \/ PrefixCanonize
  \/ PrefixRankPrefix
  \/ PrefixFromPrefix
  \/ PrefixCanonizeOther

SpecPrefix == PrefixInit /\ [][PrefixNext]_vars

\* The rank a call of rankPrefix works with.
PrefixRank == IF ret.rank = undefined THEN getRank(this) ELSE ret.rank

\* The blades of grade g that hold the first basis vector, in
\* lexicographic order: they come first in the grade.
LeadingBlades(n, g) == SelectSeq(gradeOrder[n][g], LAMBDA m : 0 \in BitsOf[m])

\* C17: rankPrefix(r) returns exactly the first binomial(n-1, r-1)
\* components of the grade-r part of the value, in order (they are the
\* components of the blades that hold the first basis vector); with r
\* omitted it uses getRank().
C17_RankPrefix ==
  (ret.op = "rankPrefix" /\ PrefixRank # undefined) =>
    /\ Len(ret.result) = binomial(this.algebra - 1, PrefixRank - 1)
    /\ \A p \in DOMAIN ret.result :
         ret.result[p] = vector(this.algebra, this.value, PrefixRank)[p]
    /\ ret.result =
         [p \in 1..Len(LeadingBlades(this.algebra, PrefixRank)) |->
            this.value[LeadingBlades(this.algebra, PrefixRank)[p]]]

\* Marvel and meantone together, of rank 2 in 2.3.5.7: a prefix of three
\* of the six components of the grade, taken with the rank omitted.
C17_Witness ==
  /\ ret.op = "rankPrefix"
  /\ ret.rank = undefined
  /\ getRank(this) = 2
  /\ this.algebra = 4
  /\ args.list = << <<-5, 2, 2, -1>>, <<-4, 4, -1, 0>> >>
  /\ Len(ret.result) = 3
  /\ \E p \in 1..3 : ret.result[p] # 0

\* The temperament is accurate: every component of value ^ jip / jip[0] on
\* a blade that holds the first basis vector is less than 1/2 in magnitude.
Accurate(T) ==
  \A m \in Blades(T.algebra) :
    0 \in BitsOf[m] =>
      2 * Abs(wedge(T.algebra, T.value,
                    fromVector(T.algebra, subgroupJip(T.subgroup), 1))[m])
        < subgroupJip(T.subgroup)[1]

\* The prefix was taken from the canonized temperament with its own rank,
\* a rank in 2..4.
RoundTrip ==
  /\ ret.canonized
  /\ getRank(this) \in 2..4
  /\ PrefixRank = getRank(this)

\* C18: for a temperament T of rank r in 2..4 built from commas or vals
\* and canonized, fromPrefix(r, T.rankPrefix(r), B).canonize() equals T.
C18_RoundTrip ==
  (ret.op = "canonizeOther" /\ RoundTrip) => equals(other, this)

\* C18 as amended: when T is accurate the temperament fromPrefix returns
\* has the value of T with the sign (-1)^(r-1), and when T is in canonical
\* form besides, its canonize() equals T.
C18_RoundTripAccurate ==
  /\ (ret.op = "fromPrefix" /\ RoundTrip /\ Accurate(this)) =>
       \A m \in Blades(this.algebra) :
         other.value[m] = (-1) ^ (getRank(this) - 1) * this.value[m]
  /\ (ret.op = "canonizeOther" /\ RoundTrip /\ Accurate(this)
        /\ canonize(this) = this) => equals(other, this)

\* Marvel (225/224 in 2.3.5.7, rank 3) recovered from its prefix.
C18_Witness ==
  /\ ret.op = "canonizeOther"
  /\ RoundTrip
  /\ getRank(this) = 3
  /\ args.kind = "commas"
  /\ args.list = << <<-5, 2, 2, -1>> >>
  /\ Accurate(this)
  /\ canonize(this) = this
  /\ equals(other, this)

\* ------------------------------------------------- the lattice laws

\* The lists temperaments are built from, cut to the subgroup: 81/80 and
\* 128/125 as commas, the vals of 5, 7 and 12 divisions of the octave; the
\* list of the same val twice gives the zero temperament, and the last val
\* has components that share the factor 49.
LatCommas(n) ==
  { [p \in DOMAIN L |-> [i \in 1..n |-> L[p][i]]] :
      L \in { <<>>, << <<-4, 4, -1>> >>, << <<7, 0, -3>> >>,
               << <<-4, 4, -1>>, <<7, 0, -3>> >> } }

LatVals(n) ==
  { [p \in DOMAIN L |-> [i \in 1..n |-> L[p][i]]] :
      L \in { << <<5, 8, 12>> >>, << <<12, 19, 28>> >>,
               << <<5, 8, 12>>, <<7, 11, 16>> >>,
               << <<5, 8, 12>>, <<5, 8, 12>> >>,
               << <<147, 343, 49>> >> } }

\* The persistence and threshold arguments of a call: the defaults, a short
\* search, a loose threshold.
LatArguments ==
  { <<persistence, <<1, thresholdDen>>>>, <<2, <<1, thresholdDen>>>>,
    <<persistence, <<1, 2>>>> }

\* What the engine may do on a call with the operands T and U: throw or
\* not, a choice it has with a zero operand only.
EngineThrows(T, U) ==
  IF temperamentIsNil(T) \/ temperamentIsNil(U) THEN BOOLEAN ELSE {FALSE}

LatNoRet ==
  [op |-> "new", error |-> FALSE, result |-> NoTemp, s |-> 0, throws |-> FALSE,
   persist |-> 0, threshold |-> <<0, 1>>, back |-> FALSE]

LatInit ==
  /\ this = NoTemp
  /\ other = NoTemp
  /\ \E B \in LifeBases : \E free \in BOOLEAN :
       args = [subgroup |-> B, free |-> free, canonized |-> <<FALSE, FALSE>>]
  /\ ret = LatNoRet

\* The receiver is built first, the other operand next.
LatHold(T) ==
  IF this = NoTemp
  THEN this' = T /\ other' = other
  ELSE this' = this /\ other' = T

LatFromCommas ==
  /\ other = NoTemp
  /\ ret.op \in {"new", "fromCommas", "fromVals", "canonize"}
  /\ \E commas \in LatCommas(Len(args.subgroup)) :
       LatHold(IF args.free
               THEN freeFromCommas(commas, subgroupJip(args.subgroup))
               ELSE fromCommas(commas, args.subgroup))
  /\ ret' = [LatNoRet EXCEPT !.op = "fromCommas"]
  /\ UNCHANGED args

LatFromVals ==
  /\ other = NoTemp
  /\ ret.op \in {"new", "fromCommas", "fromVals", "canonize"}
  /\ \E vals \in LatVals(Len(args.subgroup)) :
       LatHold(IF args.free
               THEN freeFromVals(vals, subgroupJip(args.subgroup))
               ELSE fromVals(vals, args.subgroup))
  /\ ret' = [LatNoRet EXCEPT !.op = "fromVals"]
  /\ UNCHANGED args

\* canonize() on the temperament just built.
LatCanonize ==
  /\ ret.op \in {"fromCommas", "fromVals"}
  /\ IF other = NoTemp
     THEN /\ this' = canonize(this)
          /\ other' = other
          /\ args' = [args EXCEPT !.canonized[1] = TRUE]
     ELSE /\ this' = this
          /\ other' = canonize(other)
          /\ args' = [args EXCEPT !.canonized[2] = TRUE]
  /\ ret' = [LatNoRet EXCEPT !.op = "canonize"]

\* One of the eight lattice operations by name.
latticeOperation(name, free, T, U, s, persist, threshold) ==
  CASE name = "valJoin" /\ ~free -> valJoin(T, U, s, persist, threshold)
    [] name = "valMeet" /\ ~free -> valMeet(T, U, s, persist, threshold)
    [] name = "kernelJoin" /\ ~free -> kernelJoin(T, U, s, persist, threshold)
    [] name = "kernelMeet" /\ ~free -> kernelMeet(T, U, s, persist, threshold)
    [] name = "valJoin" /\ free -> freeValJoin(T, U, s, persist, threshold)
    [] name = "valMeet" /\ free -> freeValMeet(T, U, s, persist, threshold)
    [] name = "kernelJoin" /\ free -> freeKernelJoin(T, U, s, persist, threshold)
    [] name = "kernelMeet" /\ free -> freeKernelMeet(T, U, s, persist, threshold)

\* The outcome of T.name(U, persist, threshold): [error, result]. The
\* engine returns its meet and join at the scale s; with a zero operand its
\* result is not determined by the source, and the call either throws or
\* returns a zero value.
latticeOutcome(name, free, T, U, s, throws, persist, threshold) ==
  IF temperamentIsNil(T) \/ temperamentIsNil(U)
  THEN IF throws THEN [error |-> TRUE, result |-> NoTemp]
       ELSE [error |-> FALSE, result |-> [T EXCEPT !.value = zero(T.algebra)]]
  ELSE latticeOperation(name, free, T, U, s, persist, threshold)

latReturned(name, back, s, throws, persist, threshold, r) ==
  [op |-> name, error |-> r.error,
   result |-> IF r.error THEN NoTemp ELSE r.result,
   s |-> s, throws |-> throws, persist |-> persist, threshold |-> threshold,
   back |-> back]

\* this.name(other, persistence, threshold)
LatCall ==
  /\ this # NoTemp
  /\ other # NoTemp
  /\ ret.op \in {"fromCommas", "fromVals", "canonize"}
  /\ \E name \in {"valJoin", "valMeet", "kernelJoin", "kernelMeet"} :
       \E s \in LibraryScales : \E throws \in EngineThrows(this, other) :
         \E a \in LatArguments :
         ret' = latReturned(name, FALSE, s, throws, a[1], a[2],
                            latticeOutcome(name, args.free, this, other, s, throws,
                                           a[1], a[2]))
  /\ UNCHANGED <<this, other, args>>

\* The join just returned, met with the receiver: this.valJoin(other)
\* .valMeet(this), with the default arguments.
LatMeetBack ==
  /\ ret.op = "valJoin"
  /\ ~ret.error
  /\ ret.persist = persistence
  /\ ret.threshold = <<1, thresholdDen>>
  /\ \E s \in LibraryScales : \E throws \in EngineThrows(ret.result, this) :
       ret' = latReturned("valMeet", TRUE, s, throws, persistence, <<1, thresholdDen>>,
                          latticeOutcome("valMeet", args.free, ret.result, this, s,
                                         throws, persistence, <<1, thresholdDen>>))
  /\ UNCHANGED <<this, other, args>>

\* canonize() on the meet just returned.
LatCanonizeResult ==
  /\ ret.op = "valMeet"
  /\ ret.back
  /\ ~ret.error
  /\ ret' = [ret EXCEPT !.op = "canonize", !.result = canonize(ret.result)]
  /\ UNCHANGED <<this, other, args>>

LatNext ==
  \/ LatFromCommas
  \/ LatFromVals
  \/ LatCanonize
  \/ LatCall
  \/ LatMeetBack
  \/ LatCanonizeResult

SpecLattice == LatInit /\ [][LatNext]_vars

\* What the call just made would have returned under another name, with
\* the same arguments and the same engine.
LatSame(name) ==
  latReturned(ret.op, FALSE, ret.s, ret.throws, ret.persist, ret.threshold,
              latticeOutcome(name, args.free, this, other, ret.s, ret.throws,
                             ret.persist, ret.threshold))

\* C19: kernelJoin(B, p, t) gives the same value or the same error as
\* valMeet(B, p, t), and kernelMeet(B, p, t) the same as valJoin(B, p, t),
\* for Temperament and for FreeTemperament.
C19_KernelDuals ==
  /\ (ret.op = "kernelJoin" /\ ~ret.back) => ret = LatSame("valMeet")
  /\ (ret.op = "kernelMeet" /\ ~ret.back) => ret = LatSame("valJoin")

\* A kernelJoin and a kernelMeet whose arguments decide the outcome: the
\* short search fails where the default one succeeds.
C19_Witness ==
  /\ ret.op \in {"kernelJoin", "kernelMeet"}
  /\ ret.persist = 2
  /\ ret.error
  /\ ~temperamentIsNil(this)
  /\ ~temperamentIsNil(other)
  /\ ~latticeOutcome(ret.op, args.free, this, other, ret.s, ret.throws,
                     persistence, <<1, thresholdDen>>).error

\* The temperament is in canonical form.
Canonized(T) == canonize(T) = T

\* The meet returned by this.valJoin(other).valMeet(this), canonized, is
\* the receiver.
Absorbed ==
  IF args.free THEN freeEquals(ret.result, this) ELSE equals(ret.result, this)

\* C20: for canonized A and B in the same basis, when neither step reports
\* an error, A.valJoin(B).valMeet(A).canonize() equals A.
C20_Absorption ==
  (/\ ret.op = "canonize"
   /\ ret.back
   /\ args.canonized = <<TRUE, TRUE>>) => Absorbed

\* The law holds for the temperaments that are in canonical form.
AbsorptionOfCanonical ==
  (/\ ret.op = "canonize"
   /\ ret.back
   /\ Canonized(this)) => Absorbed

\* ------------------------------------------------ the rescale search

RescaleCoef == 4
MaxPersist == 4

\* The blades rescaleValue is called on: nonzero vectors of three integer
\* components.
RescaleBlades ==
  { b \in [1..3 -> (-RescaleCoef)..RescaleCoef] : \E i \in 1..3 : b[i] # 0 }

\* The persistence arguments: the small ones and the default.
RescalePersistences == (0..MaxPersist) \cup {persistence}

\* The threshold arguments: the default, a half and one.
RescaleThresholds == { <<1, thresholdDen>>, <<1, 2>>, <<1, 1>> }

RescaleInit ==
  /\ this = NoTemp
  /\ other = NoTemp
  /\ \E b \in RescaleBlades : \E p \in RescalePersistences :
       \E t \in RescaleThresholds :
         args = [n |-> 3, grade |-> 1, blade |-> b, persist |-> p, threshold |-> t]
  /\ ret = [pc |-> "enter", minValue |-> 0, j |-> 0, good |-> FALSE, tried |-> 0,
            error |-> FALSE, value |-> <<>>]

\* The scan for minValue, and the loop entered with j = 1.
RescaleEnter ==
  /\ ret.pc = "enter"
  /\ ret' = [ret EXCEPT !.pc = "loop",
                        !.minValue = minValueScan(args.blade, 1, 0, args.threshold),
                        !.j = 1]
  /\ UNCHANGED <<this, other, args>>

\* A faulty pass of the loop body that tries the same multiplier again.
RescaleTryAgain ==
  /\ ret.pc = "loop"
  /\ withinPersistence(ret.j, args.persist)
  /\ LET good == \A i \in DOMAIN args.blade :
                   nearInteger(args.blade[i], ret.j, ret.minValue, args.threshold)
     IN ret' = [ret EXCEPT !.good = good,
                           !.tried = ret.tried + 1,
                           !.pc = IF good THEN "after" ELSE "loop"]
  /\ UNCHANGED <<this, other, args>>

\* One pass of the loop body: the multiplier j is tried, and the loop is
\* left by break when every component is near an integer.
RescaleTry ==
  /\ ret.pc = "loop"
  /\ withinPersistence(ret.j, args.persist)
  /\ LET good == \A i \in DOMAIN args.blade :
                   nearInteger(args.blade[i], ret.j, ret.minValue, args.threshold)
     IN ret' = [ret EXCEPT !.good = good,
                           !.tried = ret.tried + 1,
                           !.pc = IF good THEN "after" ELSE "loop",
                           !.j = IF good THEN ret.j ELSE ret.j + 1]
  /\ UNCHANGED <<this, other, args>>

\* The loop condition fails.
RescaleLeave ==
  /\ ret.pc = "loop"
  /\ ~withinPersistence(ret.j, args.persist)
  /\ ret' = [ret EXCEPT !.pc = "after"]
  /\ UNCHANGED <<this, other, args>>

\* if (!good) throw new Error('Failed to rescale. Try increasing persistence.')
RescaleThrow ==
  /\ ret.pc = "after"
  /\ ~ret.good
  /\ ret' = [ret EXCEPT !.pc = "done", !.error = TRUE]
  /\ UNCHANGED <<this, other, args>>

\* The rounded blade is returned.
RescaleReturn ==
  /\ ret.pc = "after"
  /\ ret.good
  /\ ret' = [ret EXCEPT
               !.pc = "done",
               !.value = fromVector(args.n,
                           [i \in DOMAIN args.blade |->
                              roundComponent(args.blade[i], ret.j, ret.minValue)],
                           args.grade)]
  /\ UNCHANGED <<this, other, args>>

RescaleNext ==
  \/ RescaleEnter
  \/ RescaleTry
  \/ RescaleLeave
  \/ RescaleThrow
  \/ RescaleReturn

SpecRescale == RescaleInit /\ [][RescaleNext]_vars

\* The component c is above the threshold in magnitude.
Above(c, threshold) == Abs(c) * threshold[2] > threshold[1]

\* The components m of smallest magnitude among those above the threshold.
SmallestAbove(blade, threshold) ==
  { blade[i] : i \in { k \in DOMAIN blade :
      /\ Above(blade[k], threshold)
      /\ \A l \in DOMAIN blade :
           Above(blade[l], threshold) => Abs(blade[k]) <= Abs(blade[l]) } }

\* c * j / m is within the threshold of an integer, the integer being the
\* floor of the quotient or the next one.
Within(c, j, m, threshold) ==
  LET num == c * j * Sign(m)
      den == Abs(m)
  IN \E k \in {num \div den, (num \div den) + 1} :
       Abs(num - k * den) * threshold[2] <= threshold[1] * den

\* Every component times j / m is within the threshold of an integer.
Fits(j, m) ==
  \A i \in DOMAIN args.blade : Within(args.blade[i], j, m, args.threshold)

\* The call made on the blade is over, and the blade had a component above
\* the threshold.
RescaleOver ==
  /\ ret.pc = "done"
  /\ SmallestAbove(args.blade, args.threshold) # {}

\* The outcome of the search over the multipliers 1..last: the first one
\* that fits is used, and the error is thrown when none fits.
SearchedUpTo(last) ==
  \A m \in SmallestAbove(args.blade, args.threshold) :
    /\ Abs(ret.minValue) = Abs(m)
    /\ ret.error <=> (\A j \in 1..last : ~Fits(j, m))
    /\ ~ret.error =>
         /\ Fits(ret.j, m)
         /\ \A j \in 1..(ret.j - 1) : ~Fits(j, m)
         /\ ret.tried = ret.j
         /\ \A i \in DOMAIN args.blade :
              Abs(args.blade[i] * ret.j * Sign(ret.minValue)
                  - vector(args.n, ret.value, args.grade)[i] * Abs(ret.minValue))
                * args.threshold[2] <= args.threshold[1] * Abs(ret.minValue)

\* C22 as stated: rescaleValue tries the multipliers 1..persistence of 1/m in
\* increasing order, returns with the first that brings every component
\* within the threshold of an integer, and throws only when none of them
\* does.
C22_RescaleSearch == RescaleOver => SearchedUpTo(args.persist)

\* C22 amended: the multipliers tried are 1..persistence - 1, and the call
\* agrees with rescaleValue as the lattice operations use it.
C22_RescaleSearchExclusive ==
  RescaleOver =>
    /\ SearchedUpTo(args.persist - 1)
    /\ [error |-> ret.error,
        value |-> IF ret.error THEN zero(args.n) ELSE ret.value]
         = rescaleBlade(args.n, args.grade, args.blade, args.persist, args.threshold)

\* A call that throws although the multiplier persistence would fit.
C22_Witness ==
  /\ RescaleOver
  /\ ret.error
  /\ args.persist = 3
  /\ args.blade = <<3, 4, 0>>
  /\ \A m \in SmallestAbove(args.blade, args.threshold) : Fits(3, m)

\* The value returned is the blade times j / m within the threshold per
\* component, for a multiplier j and a nonzero component m of the blade.
MultipleOfInput ==
  \E j \in 1..args.persist : \E k \in DOMAIN args.blade :
    /\ args.blade[k] # 0
    /\ \A i \in DOMAIN args.blade :
         Abs(args.blade[i] * j * Sign(args.blade[k])
             - vector(args.n, ret.value, args.grade)[i] * Abs(args.blade[k]))
           * args.threshold[2] <= args.threshold[1] * Abs(args.blade[k])

\* What a returned blade has to be: of the grade of the input, integer, not
\* zero, and a multiple of the input within the threshold.
SoundResult ==
  /\ grades(args.n, ret.value) = <<args.grade>>
  /\ \A k \in Blades(args.n) : ret.value[k] \in Int
  /\ ~isNil(args.n, ret.value)
  /\ MultipleOfInput

\* C29: whenever rescaleValue returns on a blade with a nonzero component,
\* the result has the same grade, integer components, is not zero and is a
\* nonzero multiple of the input within the threshold; a blade whose
\* components are all at most the threshold is not turned into zero.
C29_NoSilentWrongAnswer ==
  (ret.pc = "done" /\ ~ret.error) => SoundResult

\* The same for the blades that have a component above the threshold.
SoundAboveThreshold ==
  (RescaleOver /\ ~ret.error) => SoundResult

\* A blade with no component above the threshold comes back as zero, with
\* no error, whenever the loop is entered at all.
ZeroBelowThreshold ==
  (ret.pc = "done" /\ SmallestAbove(args.blade, args.threshold) = {}) =>
    IF args.persist >= 2
    THEN ~ret.error /\ isNil(args.n, ret.value)
    ELSE ret.error

\* -------------------------------------------------- val factorization

MaxDivisions == 12
MaxRadius == 1

\* The deviations from the base val, nearest first: 0, 1, -1, 2, -2, ...
wartDeviations(radius) ==
  [p \in 1..(2 * radius + 1) |->
     IF p = 1 THEN 0 ELSE IF p % 2 = 0 THEN p \div 2 ELSE -(p \div 2)]

\* wartVariants(base, radius): the vals that deviate from the base by at
\* most radius steps in each component, the last component varying fastest.
RECURSIVE wartVariantsFrom(_, _, _)
wartVariantsFrom(base, radius, i) ==
  IF i > Len(base) THEN << <<>> >>
  ELSE LET tails == wartVariantsFrom(base, radius, i + 1) @@ <<>>
           devs == wartDeviations(radius)
       IN [p \in 1..(Len(devs) * Len(tails)) |->
             <<base[i] + devs[((p - 1) \div Len(tails)) + 1]>>
               \o tails[((p - 1) % Len(tails)) + 1]] @@ <<>>

wartVariants(base, radius) == wartVariantsFrom(base, radius, 1)

\* iterKCombinations(set, k): the k-element combinations of the array, in
\* the order of their positions; none when k is not in 1..set.length.
RECURSIVE iterKCombinations(_, _)
RECURSIVE iterKCombinationsFrom(_, _, _)
iterKCombinationsFrom(set, k, i) ==
  IF i > Len(set) - k + 1 THEN <<>>
  ELSE LET tails == iterKCombinations(SubSeq(set, i + 1, Len(set)), k - 1) @@ <<>>
       IN [p \in DOMAIN tails |-> <<set[i]>> \o tails[p]]
            \o iterKCombinationsFrom(set, k, i + 1)

iterKCombinations(set, k) ==
  IF k > Len(set) \/ k <= 0 THEN <<>>
  ELSE IF k = Len(set) THEN <<set>>
  ELSE IF k = 1 THEN [i \in DOMAIN set |-> <<set[i]>>]
  ELSE iterKCombinationsFrom(set, k, 1)

\* variant.reduce(gcd)
reduceGcd(variant) == GcdSet(variant, DOMAIN variant)

\* existing.reduce((a, b) => wedge(a, b)) on a nonempty array of vals.
RECURSIVE reduceWedge(_, _, _, _)
reduceWedge(n, vals, i, a) ==
  IF i > Len(vals) THEN a
  ELSE reduceWedge(n, vals, i + 1, wedge(n, a, fromVector(n, vals[i], 1)))

\* The hyperwedge of a combination with the candidate equals the value or
\* its negation.
hyperwedgeMatches(T, existing, candidate) ==
  LET n == T.algebra
      hyperwedge == wedge(n, reduceWedge(n, existing, 2, fromVector(n, existing[1], 1)),
                          fromVector(n, candidate, 1))
  IN \/ equalsElement(n, hyperwedge, T.value)
     \/ equalsElement(n, hyperwedge, neg(n, T.value))

\* A faulty pushAndWedge that takes any supported candidate to complete a
\* combination.
pushAndWedgeUnchecked(T, rank, candidates, candidate, yieldsEmpty) ==
  IF ~isNil(T.algebra, wedge(T.algebra, T.value, fromVector(T.algebra, candidate, 1)))
  THEN [kind |-> "null", candidates |-> candidates, solution |-> <<>>]
  ELSE IF rank = 1 /\ yieldsEmpty
  THEN [kind |-> "TypeError", candidates |-> candidates, solution |-> <<>>]
  ELSE LET combos == IF rank = undefined THEN <<>>
                     ELSE iterKCombinations(candidates, rank - 1)
       IN IF combos # <<>>
          THEN [kind |-> "solution", candidates |-> candidates,
                solution |-> combos[1] \o <<candidate>>]
          ELSE [kind |-> "null", candidates |-> candidates \o <<candidate>>,
                solution |-> <<>>]

\* pushAndWedge(candidate): the solution found with the candidate, or null
\* with the candidate kept when the temperament supports it. The library
\* may yield one empty combination for k = 0 (yieldsEmpty), on which reduce
\* throws a TypeError. The rank of a zero value is undefined and k is NaN.
pushAndWedge(T, rank, candidates, candidate, yieldsEmpty) ==
  IF ~isNil(T.algebra, wedge(T.algebra, T.value, fromVector(T.algebra, candidate, 1)))
  THEN [kind |-> "null", candidates |-> candidates, solution |-> <<>>]
  ELSE IF rank = 1 /\ yieldsEmpty
  THEN [kind |-> "TypeError", candidates |-> candidates, solution |-> <<>>]
  ELSE LET combos == IF rank = undefined THEN <<>>
                     ELSE iterKCombinations(candidates, rank - 1)
           hits == { p \in DOMAIN combos : hyperwedgeMatches(T, combos[p], candidate) }
       IN IF hits # {}
          THEN [kind |-> "solution", candidates |-> candidates,
                solution |-> combos[SetMin(hits)] \o <<candidate>>]
          ELSE [kind |-> "null", candidates |-> candidates \o <<candidate>>,
                solution |-> <<>>]

\* mapping.map(m => m / mapping[0])
normalizedMapping(mapping) == [i \in DOMAIN mapping |-> RDiv(mapping[i], mapping[1])]

\* normalizedMapping.map(m => Math.round(m * divisions)) for finite
\* quotients.
factorBase(normalized, divisions) ==
  [i \in DOMAIN normalized |-> Round(normalized[i][1] * divisions, normalized[i][2])]

\* getJip('nats') of either class.
getJip(T) ==
  IF "jip" \in DOMAIN T THEN T.jip ELSE Sizes(subgroupJip(T.subgroup))

\* The mapping the search is based on.
factorMapping(T, patent) ==
  IF patent THEN getJip(T)
  ELSE getMapping(T, [weights |-> <<>>, temperEquaves |-> TRUE,
                      primeMapping |-> FALSE, units |-> "nats",
                      constraints |-> <<>>])

\* The temperaments factorized: meantone in 2.3.5, canonized and as built,
\* and twice its value; 12 divisions of the octave; the temperaments of no
\* comma and of no val; a zero value; the same in 2.3; two temperaments on
\* given sizes.
FactorTemperaments ==
  { canonize(fromCommas(<< <<-4, 4, -1>> >>, <<2, 3, 5>>)),
    fromCommas(<< <<-4, 4, -1>> >>, <<2, 3, 5>>),
    fromVals(<< <<10, 16, 24>>, <<7, 11, 16>> >>, <<2, 3, 5>>),
    fromVals(<< <<12, 19, 28>> >>, <<2, 3, 5>>),
    fromCommas(<<>>, <<2, 3, 5>>),
    fromVals(<<>>, <<2, 3, 5>>),
    Temperament(3, zero(3), <<2, 3, 5>>),
    fromVals(<< <<5, 8>> >>, <<2, 3>>),
    fromCommas(<<>>, <<2, 3>>),
    freeFromCommas(<< <<7, 0, -3>> >>, Sizes(<<5, 8, 12>>)),
    freeFromVals(<< <<7, 11, 16>> >>, Sizes(<<5, 8, 12>>)) }

\* The maxDivisions arguments; 31 is the division count of the meantone
\* scenario.
FactorDivisions == {1, 2, 5, 7, MaxDivisions, 31}

FactorInit ==
  /\ this \in FactorTemperaments
  /\ other = NoTemp
  /\ \E maxDivisions \in FactorDivisions : \E wartRadius \in 0..MaxRadius :
       \E patent \in (IF "jip" \in DOMAIN this THEN BOOLEAN ELSE {TRUE}) :
         \E yieldsEmpty \in (IF getRank(this) = 1 THEN BOOLEAN ELSE {FALSE}) :
           args = [maxDivisions |-> maxDivisions, wartRadius |-> wartRadius,
                   patent |-> patent, yieldsEmpty |-> yieldsEmpty,
                   value |-> this.value]
  /\ ret = [pc |-> "enter", mapping |-> <<>>, rank |-> undefined, divisions |-> 0,
            variants |-> <<>>, index |-> 0, candidates |-> <<>>, examined |-> <<>>,
            error |-> "", solution |-> <<>>]

\* The mapping, the rank and the empty list of candidates; the loop is
\* entered with divisions = 2.
FactorEnter ==
  /\ ret.pc = "enter"
  /\ ret' = [ret EXCEPT !.pc = "loop",
                        !.mapping = normalizedMapping(factorMapping(this, args.patent)),
                        !.rank = getRank(this),
                        !.divisions = 2]
  /\ UNCHANGED <<this, other, args>>

\* One pass of the loop over the division counts begins: the rounded
\* mapping and its variants.
FactorDivision ==
  /\ ret.pc = "loop"
  /\ ret.divisions <= args.maxDivisions
  /\ ret' = [ret EXCEPT
               !.pc = "variants",
               !.examined = ret.examined \o <<ret.divisions>>,
               !.variants = wartVariants(factorBase(ret.mapping, ret.divisions),
                                         args.wartRadius),
               !.index = 1]
  /\ UNCHANGED <<this, other, args>>

\* One pass of the loop over the variants: a variant that is not coprime is
\* skipped, another is pushed, and a solution is returned.
FactorVariant ==
  /\ ret.pc = "variants"
  /\ ret.index <= Len(ret.variants)
  /\ IF reduceGcd(ret.variants[ret.index]) # 1
     THEN ret' = [ret EXCEPT !.index = ret.index + 1]
     ELSE LET found == pushAndWedge(this, ret.rank, ret.candidates,
                                    ret.variants[ret.index], args.yieldsEmpty)
          IN ret' = [ret EXCEPT
                       !.candidates = found.candidates,
                       !.solution = found.solution,
                       !.error = IF found.kind = "TypeError" THEN "TypeError" ELSE "",
                       !.pc = IF found.kind = "null" THEN "variants" ELSE "done",
                       !.index = IF found.kind = "null" THEN ret.index + 1
                                 ELSE ret.index]
  /\ UNCHANGED <<this, other, args>>

\* The variants of the division count are used up: ++divisions.
FactorNextDivision ==
  /\ ret.pc = "variants"
  /\ ret.index > Len(ret.variants)
  /\ ret' = [ret EXCEPT !.pc = "loop", !.divisions = ret.divisions + 1]
  /\ UNCHANGED <<this, other, args>>

\* throw new Error('Val factorization not found within the search space')
FactorThrow ==
  /\ ret.pc = "loop"
  /\ ret.divisions > args.maxDivisions
  /\ ret' = [ret EXCEPT !.pc = "done", !.error = "not found"]
  /\ UNCHANGED <<this, other, args>>

FactorNext ==
  \/ FactorEnter
  \/ FactorDivision
  \/ FactorVariant
  \/ FactorNextDivision
  \/ FactorThrow

SpecFactor == FactorInit /\ [][FactorNext]_vars

\* The call returned a list of vals.
FactorReturned == ret.pc = "done" /\ ret.error = ""

\* No integer above 1 divides every component, and not all are zero.
Coprime(v) ==
  /\ \E i \in DOMAIN v : v[i] # 0
  /\ \A i \in DOMAIN v : \A k \in 2..Abs(v[i]) : \E l \in DOMAIN v : v[l] % k # 0

\* The vals within the radius of the rounded mapping for the division
\* count d.
VariantsOf(d) ==
  { [i \in 1..this.algebra |-> factorBase(ret.mapping, d)[i] + dv[i]] :
      dv \in [1..this.algebra -> (-args.wartRadius)..args.wartRadius] }

\* The search space: the coprime variants for the division counts
\* 2..maxDivisions.
SearchSpace ==
  UNION { { v \in VariantsOf(d) : Coprime(v) } : d \in 2..args.maxDivisions }

\* The wedge of the vals of a list is the value or its negation.
Generates(vals) ==
  LET n == this.algebra
      w == reduceWedge(n, vals, 1, scalar(n))
  IN w = this.value \/ w = neg(n, this.value)

\* The temperament supports the val: their wedge is zero.
Supports(v) ==
  isNil(this.algebra, wedge(this.algebra, this.value, fromVector(this.algebra, v, 1)))

\* C23: whenever valFactorize returns on a temperament of rank r, it returns
\* r integer vals of length n, each coprime, supported by the temperament
\* and in the search space, and their wedge is the value or its negation.
C23_FactorizeSound ==
  FactorReturned =>
    /\ Len(ret.solution) = getRank(this)
    /\ \A p \in DOMAIN ret.solution :
         /\ Len(ret.solution[p]) = this.algebra
         /\ \A i \in DOMAIN ret.solution[p] : ret.solution[p][i] \in Int
         /\ Coprime(ret.solution[p])
         /\ Supports(ret.solution[p])
         /\ ret.solution[p] \in SearchSpace
    /\ Generates(ret.solution)

\* Canonized meantone with maxDivisions 31 returns the patent vals of 5 and
\* 7 divisions.
C23_Witness ==
  /\ FactorReturned
  /\ this = canonize(fromCommas(<< <<-4, 4, -1>> >>, <<2, 3, 5>>))
  /\ args.maxDivisions = 31
  /\ args.wartRadius = 0
  /\ ret.solution = << <<5, 8, 12>>, <<7, 11, 16>> >>

\* The vals of the search space that the temperament supports; the vals of
\* a list that generates the value are among them.
SupportedSpace == { v \in SearchSpace : Supports(v) }

\* The search space holds r vals whose wedge is the value or its negation.
HasGeneratingSet ==
  \E L \in [1..getRank(this) -> SupportedSpace] : Generates(L)

\* The call is over without a list of vals: the search space holds no
\* generating set, and the error is the reported one.
ThrowsOnlyWithout ==
  (ret.pc = "done" /\ ~FactorReturned) =>
    /\ ret.error = "not found"
    /\ ~HasGeneratingSet

\* C24: for every temperament of rank r >= 1, valFactorize returns whenever
\* the search space holds r vals whose wedge is the value or its negation,
\* and throws 'Val factorization not found within the search space' only
\* when it holds none.
C24_FactorizeComplete ==
  (getRank(this) # undefined /\ getRank(this) >= 1) => ThrowsOnlyWithout

\* The same for the ranks from 2.
CompleteFromRankTwo ==
  (getRank(this) # undefined /\ getRank(this) >= 2) => ThrowsOnlyWithout

\* A temperament of rank 1 is never factorized: the call throws, whatever
\* the search space holds.
RankOneThrows ==
  (ret.pc = "done" /\ getRank(this) = 1) =>
    ret.error = (IF args.yieldsEmpty /\ SupportedSpace # {} THEN "TypeError"
                 ELSE "not found")

\* The canonized meantone scenario of C24, and a search that fails for a
\* temperament of rank 2.
MeantoneReturns ==
  (/\ ret.pc = "done"
   /\ this = canonize(fromCommas(<< <<-4, 4, -1>> >>, <<2, 3, 5>>))
   /\ args.maxDivisions >= 31) =>
    /\ FactorReturned
    /\ Len(ret.solution) = 2
    /\ args.wartRadius = 0 =>
         \A p \in 1..2 : \E d \in 2..args.maxDivisions :
           ret.solution[p] = factorBase(normalizedMapping(getJip(this)), d)

\* ------------------------------------------- the searches terminate

\* Either search, from its call to its return or throw; the rescale on the
\* blades of two components that are not negative.
SearchInit ==
  \/ /\ RescaleInit
     /\ args.blade[3] = 0
     /\ \A i \in 1..2 : args.blade[i] >= 0
  \/ FactorInit

SearchNext ==
  \/ "blade" \in DOMAIN args /\ RescaleNext
  \/ "blade" \notin DOMAIN args /\ FactorNext

\* The code runs on one thread and no step waits for anything: a step that
\* can be taken is taken.
SpecSearch == SearchInit /\ [][SearchNext]_vars /\ WF_vars(SearchNext)

\* The multipliers tried so far are 1, 2, ... without a retry, fewer than
\* persistence of them; the division counts examined so far are 2, 3, ...
\* without a retry, none above maxDivisions.
BoundedSearch ==
  IF "blade" \in DOMAIN args
  THEN /\ ret.tried <= (IF args.persist > 0 THEN args.persist ELSE 0)
       /\ ret.pc \in {"loop", "after", "done"} =>
            ret.tried = (IF ret.good THEN ret.j ELSE ret.j - 1)
  ELSE /\ Len(ret.examined) <= (IF args.maxDivisions > 1
                                THEN args.maxDivisions - 1 ELSE 0)
       /\ \A p \in DOMAIN ret.examined : ret.examined[p] = p + 1

\* The passes left to the rescale loop, and the steps around it.
RescaleFuel ==
  LET last == IF args.persist > 1 THEN args.persist ELSE 1
  IN CASE ret.pc = "enter" -> 2 * last + 3
       [] ret.pc = "loop" -> 2 * (last - ret.j) + 2
       [] ret.pc = "after" -> 1
       [] OTHER -> 0

\* The passes left to the two loops of the factorization: the division
\* counts not yet begun, and the variants of the current one.
FactorFuel ==
  LET width == 2 * args.wartRadius + 1
      most == width * width * width
      left == IF ret.divisions > args.maxDivisions THEN 0
              ELSE args.maxDivisions - ret.divisions + 1
  IN CASE ret.pc = "enter" ->
            (IF args.maxDivisions > 1 THEN args.maxDivisions - 1 ELSE 0) * (most + 3) + 3
       [] ret.pc = "loop" -> left * (most + 3) + 2
       [] ret.pc = "variants" -> (left - 1) * (most + 3) + 2 + (most + 2 - ret.index)
       [] OTHER -> 0

SearchFuel == IF "blade" \in DOMAIN args THEN RescaleFuel ELSE FactorFuel

\* A search that has not finished has a step to take: one of the loop
\* conditions of its position holds.
CanStep ==
  IF "blade" \in DOMAIN args
  THEN \/ ret.pc = "enter"
       \/ ret.pc = "loop" /\ withinPersistence(ret.j, args.persist)
       \/ ret.pc = "loop" /\ ~withinPersistence(ret.j, args.persist)
       \/ ret.pc = "after" /\ ~ret.good
       \/ ret.pc = "after" /\ ret.good
  ELSE \/ ret.pc = "enter"
       \/ ret.pc = "loop" /\ ret.divisions <= args.maxDivisions
       \/ ret.pc = "loop" /\ ret.divisions > args.maxDivisions
       \/ ret.pc = "variants" /\ ret.index <= Len(ret.variants)
       \/ ret.pc = "variants" /\ ret.index > Len(ret.variants)

\* C28: for every finite maxDivisions, wartRadius and persistence and every
\* temperament, valFactorize and rescaleValue finish, by a return or by a
\* throw; valFactorize examines each division count of 2..maxDivisions at
\* most once and rescaleValue at most persistence multipliers, with no
\* retry.  Termination is stated by its proof: a search that has not
\* finished can step, and every step uses up fuel, a natural number.
C28_SearchTerminates ==
  /\ [](BoundedSearch /\ SearchFuel >= 0 /\ (ret.pc = "done" \/ CanStep))
  /\ [][SearchFuel' < SearchFuel]_vars

\* A factorization that examined every division count up to 31 and threw,
\* and a rescale that tried every multiplier below its persistence and
\* threw.
C28_Witness ==
  /\ ret.pc = "done"
  /\ "blade" \notin DOMAIN args
  /\ ret.error = "not found"
  /\ args.maxDivisions = 31
  /\ Len(ret.examined) = 30

C28_WitnessRescale ==
  /\ ret.pc = "done"
  /\ "blade" \in DOMAIN args
  /\ ret.error = TRUE
  /\ args.persist = 3
  /\ ret.tried = 2

\* ------------------------------------- reconstruction from any prefix

PrefixCoef == 2

\* The integer arrays of a length, components within the bound.
PrefixArrays(len) == [1..len -> -PrefixCoef..PrefixCoef]

RebuildInit ==
  /\ this = NoTemp
  /\ other = NoTemp
  /\ \E B \in GenSubgroups : \E rank \in 1..Len(B) :
       \E prefix \in PrefixArrays(binomial(Len(B) - 1, rank - 1)) :
         args = [subgroup |-> B, rank |-> rank, wedgiePrefix |-> prefix]
  /\ ret = [op |-> "new", result |-> <<>>]

\* Temperament.fromPrefix(rank, wedgiePrefix, subgroup)
RebuildFromPrefix ==
  /\ ret.op = "new"
  /\ this' = fromPrefix(args.rank, args.wedgiePrefix, args.subgroup)
  /\ ret' = [ret EXCEPT !.op = "fromPrefix"]
  /\ UNCHANGED <<other, args>>

\* this.rankPrefix(rank) on the temperament as reconstructed.
RebuildRankPrefix ==
  /\ ret.op = "fromPrefix"
  /\ ret' = [ret EXCEPT !.op = "rankPrefix", !.result = rankPrefix(this, args.rank)]
  /\ UNCHANGED <<this, other, args>>

\* this.canonize() after the prefix was read.
RebuildCanonize ==
  /\ ret.op = "rankPrefix"
  /\ this' = canonize(this)
  /\ ret' = [ret EXCEPT !.op = "canonize"]
  /\ UNCHANGED <<other, args>>

RebuildNext ==
  \/ RebuildFromPrefix
  \/ RebuildRankPrefix
  \/ RebuildCanonize

SpecRebuild == RebuildInit /\ [][RebuildNext]_vars

\* C30: for every basis, every rank r in 1..n and every integer array p of
\* length binomial(n - 1, r - 1), fromPrefix(r, p, basis).rankPrefix(r) is p
\* before any canonize, and every component of the value is an integer.
C30_PrefixPreserved ==
  ret.op = "rankPrefix" =>
    /\ ret.result = args.wedgiePrefix
    /\ \A m \in Blades(this.algebra) : this.value[m] \in Int

\* The prefix comes back with the sign (-1)^(r - 1): the padded prefix is
\* the left factor of the wedge with the sizes.
C30_PrefixUpToSign ==
  ret.op = "rankPrefix" =>
    /\ Len(ret.result) = Len(args.wedgiePrefix)
    /\ \A i \in DOMAIN args.wedgiePrefix :
         ret.result[i] = (IF args.rank % 2 = 0 THEN -1 ELSE 1) * args.wedgiePrefix[i]
    /\ \A m \in Blades(this.algebra) : this.value[m] \in Int

\* The prefix [2, 1] of rank 2 in 2.3.5 comes back as [-2, -1].
C30_Witness ==
  /\ ret.op = "rankPrefix"
  /\ args.subgroup = <<2, 3, 5>>
  /\ args.rank = 2
  /\ args.wedgiePrefix = <<2, 1>>
  /\ ret.result = <<-2, -1>>

\* ------------------------------------------------- period and generator

\* The order of two floats, neither of them NaN.
RLess(a, b) == RAdd(a, <<-b[1], b[2]>>)[1] < 0

\* Math.trunc of a finite float.
RTrunc(a) == Sign(a[1]) * (Abs(a[1]) \div a[2])

\* a % b of floats: the remainder with the sign of a; NaN when a is not
\* finite or b is zero or NaN, and a itself when b is infinite.
fmod(a, b) ==
  IF a[2] = 0 \/ b = <<0, 0>> \/ b = <<0, 1>> THEN <<0, 0>>
  ELSE IF b[2] = 0 THEN a
  ELSE RAdd(a, RMul(RInt(-RTrunc(RDiv(a, b))), b))

\* A faulty mmod that keeps the sign of the remainder.
mmodSigned(a, b) == fmod(a, b)

\* xen-dev-utils mmod: ((a % b) + b) % b
mmod(a, b) == fmod(RAdd(fmod(a, b), b), b)

\* Math.min of two floats.
mathMin(a, b) ==
  IF a = <<0, 0>> \/ b = <<0, 0>> THEN <<0, 0>>
  ELSE IF RLess(b, a) THEN b ELSE a

RNeg(a) == <<-a[1], a[2]>>

\* The end of periodGenerator: the pair in the units asked for.
periodGeneratorOf(mapping, numPeriods, generatorMonzo, units) ==
  LET period == RDiv(mapping[1], RInt(numPeriods))
      generator == RDot(mapping, generatorMonzo)
  IN convert(<<period,
               mathMin(mmod(generator, period), mmod(RNeg(generator), period))>>,
             units)

\* BaseTemperament.periodGenerator(options), units not 'ratio'.
periodGenerator(T, options) ==
  periodGeneratorOf(getMapping(T, [options EXCEPT !.units = "nats",
                                                  !.primeMapping = FALSE]) @@ <<>>,
                    numPeriodsGenerator(T)[1], numPeriodsGenerator(T)[2],
                    options.units)

PeriodInit ==
  /\ this = NoTemp
  /\ other = NoTemp
  /\ \E J \in TuneJips : args = [jip |-> J, kind |-> "none", list |-> <<>>]
  /\ ret = [op |-> "new", canonized |-> FALSE, options |-> <<>>, result |-> <<>>]

PeriodFromCommas ==
  /\ this = NoTemp
  /\ \E len \in 0..TuneLen : \E commas \in [1..len -> TunePool(Len(args.jip))] :
       /\ this' = freeFromCommas(commas, args.jip)
       /\ args' = [args EXCEPT !.kind = "commas", !.list = commas]
  /\ ret' = [ret EXCEPT !.op = "fromCommas"]
  /\ UNCHANGED other

PeriodFromVals ==
  /\ this = NoTemp
  /\ \E len \in 0..TuneLen : \E vals \in [1..len -> TunePool(Len(args.jip))] :
       /\ this' = freeFromVals(vals, args.jip)
       /\ args' = [args EXCEPT !.kind = "vals", !.list = vals]
  /\ ret' = [ret EXCEPT !.op = "fromVals"]
  /\ UNCHANGED other

PeriodCanonize ==
  /\ ret.op \in {"fromCommas", "fromVals"}
  /\ this' = canonize(this)
  /\ ret' = [ret EXCEPT !.op = "canonize", !.canonized = TRUE]
  /\ UNCHANGED <<other, args>>

\* The default weights and weights that grow with the factor.
PeriodWeights(n) == { <<>>, [i \in 1..n |-> <<i, 1>>] }

\* this.periodGenerator(options); a request for a prime mapping, made here
\* with the pure equaves, is overridden.
PeriodGenerator ==
  /\ ret.op \in {"fromCommas", "fromVals", "canonize"}
  /\ \E w \in PeriodWeights(this.algebra) : \E te \in BOOLEAN :
       \E u \in {"nats", "semitones", "cents"} :
         LET options == [weights |-> w, temperEquaves |-> te,
                         primeMapping |-> ~te, units |-> u, constraints |-> <<>>]
         IN ret' = [ret EXCEPT !.op = "periodGenerator", !.options = options,
                               !.result = periodGenerator(this, options)]
  /\ UNCHANGED <<this, other, args>>

PeriodNext ==
  \/ PeriodFromCommas
  \/ PeriodFromVals
  \/ PeriodCanonize
  \/ PeriodGenerator

SpecPeriod == PeriodInit /\ [][PeriodNext]_vars

\* The mapping of the call in the units asked for, and in nats.
PeriodMapping == getMapping(this, [ret.options EXCEPT !.primeMapping = FALSE])
PeriodNats ==
  getMapping(this, [ret.options EXCEPT !.primeMapping = FALSE, !.units = "nats"])

\* The case of the claim: a canonized temperament of rank 2 with at least
\* one period to the equave and a positive size of the equave.
PeriodCase ==
  /\ ret.op = "periodGenerator"
  /\ ret.canonized
  /\ getRank(this) = 2
  /\ numPeriodsGenerator(this)[1] >= 1
  /\ PeriodNats[1][2] # 0
  /\ PeriodNats[1][1] > 0

\* x is a whole number of periods.
WholePeriods(x, period) == RDiv(x, period)[2] = 1

\* The temperament of the commas 225/224 and 1029/1024, canonized.
Miracle ==
  canonize(fromCommas(<< <<-5, 2, 2, -1>>, <<-10, 1, 0, 3>> >>, <<2, 3, 5, 7>>))

\* The example: one period to the equave, and a generator monzo that is
\* 16/15 or its inverse up to equaves under the vals of 10 and 31 divisions
\* that span the temperament. (In the pure-equave Tenney-Euclid tuning 16/15
\* is 116.675 cents.)
MiracleExample ==
  /\ numPeriodsGenerator(Miracle)[1] = 1
  /\ \E s \in {-1, 1} : \E k \in -8..8 :
       \A v \in { <<10, 16, 23, 28>>, <<31, 49, 72, 87>> } :
         dot(v, numPeriodsGenerator(Miracle)[2]) = s * dot(v, <<4, -1, -1, 0>>) + k * v[1]

\* C27: periodGenerator returns the period mapping[0] / d and a generator
\* between 0 and half the period that is congruent to g or to -g modulo
\* the period, g the size of the generator monzo, in nats, semitones and
\* cents; the commas 225/224 and 1029/1024 give one period and the
\* generator 16/15 or its complement.
C27_PeriodGenerator ==
  PeriodCase =>
    LET d == numPeriodsGenerator(this)[1]
        g == RDot(PeriodMapping, numPeriodsGenerator(this)[2])
        period == ret.result[1]
        generator == ret.result[2]
    IN /\ period = RDiv(PeriodMapping[1], RInt(d))
       /\ ~RLess(generator, <<0, 1>>)
       /\ ~RLess(period, RMul(RInt(2), generator))
       /\ \/ WholePeriods(RAdd(generator, RNeg(g)), period)
          \/ WholePeriods(RAdd(generator, g), period)
       /\ generator = mathMin(mmod(g, period), mmod(RNeg(g), period))
       /\ MiracleExample

\* A generator that is the complement of g in the period: g is more than
\* half the period.
C27_Witness ==
  /\ PeriodCase
  /\ this.algebra = 3
  /\ ret.options.units = "cents"
  /\ ret.result[2] # <<0, 1>>
  /\ RLess(RMul(RInt(2), ret.result[2]), ret.result[1])
  /\ ~WholePeriods(RAdd(ret.result[2],
                        RNeg(RDot(PeriodMapping, numPeriodsGenerator(this)[2]))),
                   ret.result[1])

\* ------------------------------------------------------ basis mapping

BasisLen == 3

\* wedge(...gens) of one or more elements, from the left.
RECURSIVE wedgeFrom(_, _, _, _)
wedgeFrom(n, gens, k, acc) ==
  IF k > Len(gens) THEN acc
  ELSE wedgeFrom(n, gens, k + 1, wedge(n, acc, gens[k]) @@ <<>>)

wedgeAll(n, gens) == wedgeFrom(n, gens, 2, gens[1])

\* Clifford.basisBlade(i) wedged with every generator but the j-th, in
\* order.
RECURSIVE primeWedge(_, _, _, _, _)
primeWedge(n, gens, j, k, acc) ==
  IF k > Len(gens) THEN acc
  ELSE primeWedge(n, gens, j, k + 1,
                  IF k = j THEN acc ELSE wedge(n, acc, gens[k]) @@ <<>>)

\* AlgebraElement.invScale(other, threshold) on elements of integers: the
\* factor that takes other to this, NaN when there is none. Components are
\* integers, far above the threshold or zero.
invScale(n, a, b) ==
  IF isNil(n, b) THEN <<0, 0>>
  ELSE LET m == SetMin({x \in Blades(n) : b[x] # 0})
       IN IF \A x \in Blades(n) : a[x] * b[m] = a[m] * b[x]
          THEN RNorm(a[m], b[m]) ELSE <<0, 0>>

\* The rows of the result: row i holds, for every basis factor, the
\* component on generator i.
basisRows(n, gens, commaWedge, hyperwedge) ==
  [i \in 1..Len(gens) |->
     [p \in 1..n |->
        RMul(invScale(n, wedge(n, primeWedge(n, gens, i, 1, basisBlade(n, p - 1)),
                               commaWedge),
                      hyperwedge),
             RInt(IF i % 2 = 1 THEN 1 ELSE -1))]]

\* BaseTemperament.basisMapping(generators): the float64 algebra holds the
\* integers of the value and of the generators exactly. wedge() of no
\* element is no element, and the call of its method throws a TypeError.
basisMapping(T, generators) ==
  IF Len(generators) # getRank(T)
  THEN [error |-> "Number of basis generators must match rank", result |-> <<>>]
  ELSE IF Len(generators) = 0 THEN [error |-> "TypeError", result |-> <<>>]
  ELSE LET n == T.algebra
           gens == [k \in DOMAIN generators |-> fromVector(n, generators[k], 1)]
           commaWedge == dual(n, T.value)
       IN [error |-> "",
           result |-> basisRows(n, gens, commaWedge,
                                wedge(n, wedgeAll(n, gens), commaWedge))]

\* Generator vectors over the first n factors of 2.3.5: none, 2/1, 3/2, 5/4
\* and 3/1.
BasisPool(n) ==
  { [i \in 1..n |-> v[i]] :
      v \in { <<0, 0, 0>>, <<1, 0, 0>>, <<-1, 1, 0>>, <<-2, 0, 1>>, <<0, 1, 0>> } }

BasisSubgroups == { <<2, 3>>, <<2, 3, 5>> }

BasisInit ==
  /\ this = NoTemp
  /\ other = NoTemp
  /\ \E B \in BasisSubgroups :
       args = [subgroup |-> B, kind |-> "none", list |-> <<>>, generators |-> <<>>]
  /\ ret = [op |-> "new", error |-> "", result |-> <<>>, before |-> NoTemp]

BasisFromCommas ==
  /\ this = NoTemp
  /\ \E commas \in GenLists(GenCommas(Len(args.subgroup))) :
       /\ this' = fromCommas(commas, args.subgroup)
       /\ args' = [args EXCEPT !.kind = "commas", !.list = commas]
  /\ ret' = [ret EXCEPT !.op = "fromCommas"]
  /\ UNCHANGED other

BasisFromVals ==
  /\ this = NoTemp
  /\ \E vals \in GenLists(GenVals(Len(args.subgroup))) :
       /\ this' = fromVals(vals, args.subgroup)
       /\ args' = [args EXCEPT !.kind = "vals", !.list = vals]
  /\ ret' = [ret EXCEPT !.op = "fromVals"]
  /\ UNCHANGED other

BasisCanonize ==
  /\ ret.op \in {"fromCommas", "fromVals"}
  /\ this' = canonize(this)
  /\ ret' = [ret EXCEPT !.op = "canonize"]
  /\ UNCHANGED <<other, args>>

\* this.basisMapping(generators)
BasisMapping ==
  /\ ret.op \in {"fromCommas", "fromVals", "canonize"}
  /\ \E len \in 0..BasisLen : \E generators \in [1..len -> BasisPool(this.algebra)] :
       /\ args' = [args EXCEPT !.generators = generators]
       /\ ret' = [op |-> "basisMapping",
                  error |-> basisMapping(this, generators).error,
                  result |-> basisMapping(this, generators).result,
                  before |-> this]
  /\ UNCHANGED <<this, other>>

BasisNext ==
  \/ BasisFromCommas
  \/ BasisFromVals
  \/ BasisCanonize
  \/ BasisMapping

SpecBasis == BasisInit /\ [][BasisNext]_vars

\* The result has as many rows as the temperament has rank, of n entries.
RankRows ==
  /\ ret.error = ""
  /\ Len(ret.result) = getRank(this)
  /\ \A i \in DOMAIN ret.result : Len(ret.result[i]) = this.algebra

\* C26: basisMapping throws 'Number of basis generators must match rank'
\* whenever the number of generators differs from the rank, and the
\* temperament is as before; when the counts match it returns rank rows of
\* n entries each.
C26_BasisMapping ==
  ret.op = "basisMapping" =>
    /\ this = ret.before
    /\ IF Len(args.generators) # getRank(this)
       THEN ret.error = "Number of basis generators must match rank"
       ELSE RankRows

\* The claim holds of every temperament of rank 1 or more, and of every
\* mismatch.
BasisFromRankOne ==
  (ret.op = "basisMapping" /\ getRank(this) # 0) =>
    /\ this = ret.before
    /\ IF Len(args.generators) # getRank(this)
       THEN ret.error = "Number of basis generators must match rank"
       ELSE RankRows

\* A temperament of rank 0 given no generators: a TypeError.
BasisRankZero ==
  (ret.op = "basisMapping" /\ getRank(this) = 0 /\ args.generators = <<>>) =>
    ret.error = "TypeError"

\* Meantone on the generators 2/1 and 3/2: 5/4 is four fifths less two
\* octaves.
BasisMeantone ==
  (/\ ret.op = "basisMapping"
   /\ args.kind = "commas"
   /\ args.list = << <<-4, 4, -1>> >>
   /\ args.generators = << <<1, 0, 0>>, <<-1, 1, 0>> >>) =>
    ret.result = << Sizes(<<1, 1, 0>>), Sizes(<<0, 1, 4>>) >>

\* ------------------------------------------- join and meet as unions

\* Lists of vals, cut to the subgroup: the vals of 5, 7 and 12 divisions,
\* one of them twice, and 49 times the val of the first factor alone.
UnionVals(n) ==
  { [p \in DOMAIN L |-> [i \in 1..n |-> L[p][i]]] :
      L \in { <<>>, << <<5, 8, 12>> >>, << <<7, 11, 16>> >>, << <<12, 19, 28>> >>,
               << <<5, 8, 12>>, <<7, 11, 16>> >>,
               << <<12, 19, 28>>, <<12, 19, 28>> >>,
               << <<49, 0, 0>> >> } }

\* Lists of commas, cut to the subgroup: 81/80, 128/125, 25/24, one of them
\* twice, and the 49th power of the first factor.
UnionCommas(n) ==
  { [p \in DOMAIN L |-> [i \in 1..n |-> L[p][i]]] :
      L \in { <<>>, << <<-4, 4, -1>> >>, << <<7, 0, -3>> >>, << <<-3, -1, 2>> >>,
               << <<-4, 4, -1>>, <<7, 0, -3>> >>,
               << <<-3, -1, 2>>, <<-3, -1, 2>> >>,
               << <<49, 0, 0>> >> } }

UnionLists(kind, n) == IF kind = "vals" THEN UnionVals(n) ELSE UnionCommas(n)

\* fromVals(list, subgroup) or fromCommas(list, subgroup)
unionFrom(kind, list, subgroup) ==
  IF kind = "vals" THEN fromVals(list, subgroup) ELSE fromCommas(list, subgroup)

UnionInit ==
  /\ this = NoTemp
  /\ other = NoTemp
  /\ \E B \in LifeBases : \E kind \in {"vals", "commas"} :
       args = [subgroup |-> B, kind |-> kind, first |-> <<>>, second |-> <<>>]
  /\ ret = [op |-> "new", error |-> FALSE, result |-> NoTemp, built |-> NoTemp,
            whole |-> NoTemp]

\* The receiver, from the first list.
UnionFirst ==
  /\ ret.op = "new"
  /\ \E list \in UnionLists(args.kind, Len(args.subgroup)) :
       /\ this' = unionFrom(args.kind, list, args.subgroup)
       /\ args' = [args EXCEPT !.first = list]
  /\ ret' = [ret EXCEPT !.op = "first"]
  /\ UNCHANGED other

\* The other operand, from the second list.
UnionSecond ==
  /\ ret.op = "first"
  /\ \E list \in UnionLists(args.kind, Len(args.subgroup)) :
       /\ other' = unionFrom(args.kind, list, args.subgroup)
       /\ args' = [args EXCEPT !.second = list]
  /\ ret' = [ret EXCEPT !.op = "second"]
  /\ UNCHANGED this

\* The temperament of the two lists, one after the other.
UnionWhole ==
  /\ ret.op = "second"
  /\ ret' = [ret EXCEPT
               !.op = "whole",
               !.built = unionFrom(args.kind, args.first \o args.second, args.subgroup),
               !.whole = unionFrom(args.kind, args.first \o args.second, args.subgroup)]
  /\ UNCHANGED <<this, other, args>>

\* this.valJoin(other) for lists of vals, this.valMeet(other) for lists of
\* commas, with the default arguments.
UnionCall ==
  /\ ret.op = "whole"
  /\ \E s \in LibraryScales :
       LET r == IF args.kind = "vals"
                THEN valJoin(this, other, s, persistence, <<1, thresholdDen>>)
                ELSE valMeet(this, other, s, persistence, <<1, thresholdDen>>)
       IN ret' = [ret EXCEPT !.op = "call", !.error = r.error,
                             !.result = IF r.error THEN NoTemp ELSE r.result]
  /\ UNCHANGED <<this, other, args>>

\* canonize() on the temperament returned.
UnionCanonizeResult ==
  /\ ret.op = "call"
  /\ ~ret.error
  /\ ret' = [ret EXCEPT !.op = "canonize", !.result = canonize(ret.result)]
  /\ UNCHANGED <<this, other, args>>

\* canonize() on the temperament of the two lists.
UnionCanonizeWhole ==
  /\ ret.op = "canonize"
  /\ ret' = [ret EXCEPT !.op = "done", !.whole = canonize(ret.whole)]
  /\ UNCHANGED <<this, other, args>>

UnionNext ==
  \/ UnionFirst
  \/ UnionSecond
  \/ UnionWhole
  \/ UnionCall
  \/ UnionCanonizeResult
  \/ UnionCanonizeWhole

SpecUnion == UnionInit /\ [][UnionNext]_vars

\* C21: when the rescale succeeds, fromVals(V1).valJoin(fromVals(V2))
\* .canonize() has the value of fromVals(V1 ++ V2).canonize(); dually
\* fromCommas(C1).valMeet(fromCommas(C2)).canonize() has the value of
\* fromCommas(C1 ++ C2).canonize(), the temperament supported by the vals
\* that map every comma of both lists to zero.
C21_JoinIsUnion ==
  ret.op = "done" => ret.result.value = ret.whole.value

\* The value returned is the temperament of the two lists as built, in
\* lowest terms and with a positive leading component.
UnionInLowestTerms ==
  ret.op = "done" =>
    LET n == ret.result.algebra
        v == ret.result.value
    IN /\ ~isNil(n, v)
       /\ \A i, j \in Blades(n) : v[i] * ret.built.value[j] = v[j] * ret.built.value[i]
       /\ \A m \in Blades(n) : \A d \in 2..Abs(v[m]) : ~Divides(d, n, v)
       /\ LeadingSign(n, v) = 1

\* The claim holds when canonize divides the temperament of the two lists
\* by a number that is no multiple of 49.
UnionOfExact ==
  (ret.op = "done" /\ ~Divides(49, ret.built.algebra, ret.built.value)) =>
    ret.result.value = ret.whole.value

\* The call never fails on these lists.
UnionRescales == ret.op = "call" => ~ret.error

\* ------------------------------------------ what the operations change

\* AlgebraElement.star(other): the scalar product of the components.
star(n, a, b) == SumSet([m \in Blades(n) |-> a[m] * b[m]], Blades(n))

\* FreeTemperament.steps(interval)
steps(T, interval) == star(T.algebra, T.value, fromVector(T.algebra, interval, 1))

\* FreeTemperament.tune(interval, options), units not 'ratio'.
tune(T, interval, options) ==
  convert(<<RDot(getMapping(T, [options EXCEPT !.units = "nats",
                                               !.primeMapping = FALSE]) @@ <<>>,
                 interval)>>,
          options.units)[1]

\* The generators after the period: each reduced by the period when
\* modPeriod is set.
generatorsAfter(mapping, pairs, period, modPeriod) ==
  [i \in 1..(Len(pairs) - 1) |->
     LET generator == RDiv(RDot(mapping, pairs[i + 1][1]), RInt(pairs[i + 1][2]))
     IN IF modPeriod
        THEN mathMin(mmod(generator, period), mmod(RNeg(generator), period))
        ELSE generator]

generatorsOf(mapping, pairs, units, modPeriod) ==
  IF Len(pairs) = 0 THEN <<>>
  ELSE convert(<<RDiv(RDot(mapping, pairs[1][1]), RInt(pairs[1][2]))>>
                 \o generatorsAfter(mapping, pairs,
                                    RDiv(RDot(mapping, pairs[1][1]), RInt(pairs[1][2])),
                                    modPeriod),
               units)

\* BaseTemperament.generators(options, modPeriod): [error, result]
generators(T, options, modPeriod) ==
  LET found == fractionalGenerators(T)
  IN IF found.error
     THEN [error |-> "Failed to extract generators", result |-> <<>>]
     ELSE [error |-> "",
           result |-> generatorsOf(getMapping(T, [options EXCEPT !.units = "nats",
                                                                 !.primeMapping = FALSE])
                                     @@ <<>>,
                                   found.pairs, options.units, modPeriod)]

\* FreeTemperament.fromPrefix(rank, wedgiePrefix, jip), the sizes whole
\* numbers.
freeFromPrefix(rank, wedgiePrefix, jip) ==
  LET n == Len(jip)
      w == wedge(n, fromVector(n, paddedWedgie(n, rank, wedgiePrefix), rank - 1),
                    fromVector(n, [i \in 1..n |-> jip[i][1]], 1))
  IN FreeTemperament(n, element([k \in Blades(n) |-> Round(w[k], jip[1][1])]), jip)

\* A faulty join that hands back the receiver when the join is the
\* receiver.
sameInstance(T, r) ==
  IF r.error = "" /\ r.result.value = T.value THEN "this" ELSE "none"

\* new FreeTemperament(...): the temperament returned is an object of its
\* own, not one of the operands.
newInstance(T, r) == "none"

FrameSizes == Sizes(<<5, 8, 12>>)

\* The temperaments the operations are called on: 5 divisions, meantone as
\* built, augmented, twice the val of 12 divisions, and no val.
FrameFive == freeFromVals(<< <<5, 8, 12>> >>, FrameSizes)

FrameMeantone == freeFromVals(<< <<7, 11, 16>>, <<5, 8, 12>> >>, FrameSizes)

FrameAugmented == freeFromCommas(<< <<7, 0, -3>> >>, FrameSizes)

FrameTwice == freeFromVals(<< <<24, 38, 56>> >>, FrameSizes)

FrameNoVal == freeFromVals(<<>>, FrameSizes)

\* Temperaments of the subgroup 2.3.5: meantone from its comma and 12
\* divisions.
FrameSyntonic == fromCommas(<< <<-4, 4, -1>> >>, <<2, 3, 5>>)

FrameTwelve == fromVals(<< <<12, 19, 28>> >>, <<2, 3, 5>>)

\* The receiver and the other operand.
FramePairs ==
  { <<FrameMeantone, FrameFive>>, <<FrameFive, FrameTwice>>,
    <<FrameTwice, FrameAugmented>>, <<FrameAugmented, FrameMeantone>>,
    <<FrameMeantone, FrameMeantone>>, <<FrameNoVal, FrameFive>>,
    <<FrameSyntonic, FrameTwelve>>, <<FrameTwelve, FrameSyntonic>> }

\* Whether T is a FreeTemperament.
isFree(T) == "jip" \in DOMAIN T

\* The temperament the tuning is computed on: Temperament.getMapping
\* computes on the sizes of the factors of its subgroup, taken here as 5, 8
\* and 12 for 2, 3 and 5.
sized(T) == IF isFree(T) THEN T ELSE FreeTemperament(T.algebra, T.value, FrameSizes)

FrameIntervals == { <<-1, 1, 0>>, <<-2, 0, 1>> }

FrameOptions ==
  { [weights |-> <<>>, temperEquaves |-> te, primeMapping |-> FALSE,
     units |-> "cents", constraints |-> <<>>] : te \in BOOLEAN }

\* No call in progress, nothing returned.
FrameRet ==
  [pc |-> "done", op |-> "new", error |-> "", result |-> <<>>, alias |-> "none",
   target |-> "none", mapping |-> <<>>, rank |-> undefined, divisions |-> 0,
   variants |-> <<>>, index |-> 0, candidates |-> <<>>, examined |-> <<>>,
   solution |-> <<>>]

\* The arguments of valFactorize.
FrameArgs ==
  [maxDivisions |-> 7, wartRadius |-> 1, patent |-> TRUE, yieldsEmpty |-> FALSE]

FrameInit ==
  /\ \E pair \in FramePairs : this = pair[1] /\ other = pair[2]
  /\ args = FrameArgs
  /\ ret = FrameRet

\* A call can be made: both operands exist and no call is in progress.
FrameIdle == ret.pc = "done"

\* What a call that leaves through `return` or `throw` leaves behind.
frameReturned(op, error, result) ==
  [FrameRet EXCEPT !.op = op, !.error = error, !.result = result]

FrameGetMapping ==
  /\ FrameIdle
  /\ \E options \in FrameOptions :
       ret' = frameReturned("getMapping", "", getMapping(sized(this), options))
  /\ UNCHANGED <<this, other, args>>

FrameTune ==
  /\ FrameIdle
  /\ \E options \in FrameOptions : \E interval \in FrameIntervals :
       ret' = frameReturned("tune", "", tune(sized(this), interval, options))
  /\ UNCHANGED <<this, other, args>>

FrameSteps ==
  /\ FrameIdle
  /\ \E interval \in FrameIntervals :
       ret' = frameReturned("steps", "", steps(this, interval))
  /\ UNCHANGED <<this, other, args>>

FramePeriodGenerator ==
  /\ FrameIdle
  /\ \E options \in FrameOptions :
       ret' = frameReturned("periodGenerator", "",
                            periodGenerator(sized(this), options))
  /\ UNCHANGED <<this, other, args>>

FrameGenerators ==
  /\ FrameIdle
  /\ \E options \in FrameOptions : \E modPeriod \in BOOLEAN :
       LET r == generators(sized(this), options, modPeriod)
       IN ret' = frameReturned("generators", r.error, r.result)
  /\ UNCHANGED <<this, other, args>>

FrameNumPeriodsGenerator ==
  /\ FrameIdle
  /\ ret' = frameReturned("numPeriodsGenerator", "", numPeriodsGenerator(this))
  /\ UNCHANGED <<this, other, args>>

FrameFractionalGenerators ==
  /\ FrameIdle
  /\ LET r == fractionalGenerators(this)
     IN ret' = frameReturned("fractionalGenerators",
                             IF r.error THEN "Failed to extract generators" ELSE "",
                             r.pairs)
  /\ UNCHANGED <<this, other, args>>

FrameRankPrefix ==
  /\ FrameIdle
  /\ \E rank \in {undefined} \cup 0..this.algebra :
       ret' = frameReturned("rankPrefix", "", rankPrefix(this, rank))
  /\ UNCHANGED <<this, other, args>>

FrameBasisMapping ==
  /\ FrameIdle
  /\ \E len \in 1..2 : \E gens \in [1..len -> FrameIntervals] :
       LET r == basisMapping(this, gens)
       IN ret' = frameReturned("basisMapping", r.error, r.result)
  /\ UNCHANGED <<this, other, args>>

\* this.valFactorize(maxDivisions, wartRadius) is entered; its loops are
\* the steps of the factorization.
FrameValFactorize ==
  /\ FrameIdle
  /\ ret' = [FrameRet EXCEPT !.op = "valFactorize", !.pc = "enter"]
  /\ UNCHANGED <<this, other, args>>

FrameEquals ==
  /\ FrameIdle
  /\ ret' = frameReturned("equals", "",
                          IF isFree(this) THEN freeEquals(this, other)
                          ELSE equals(this, other))
  /\ UNCHANGED <<this, other, args>>

\* this.valJoin(other, persistence), and valMeet, kernelJoin and
\* kernelMeet: a new temperament, or the error of the rescale.
FrameLattice ==
  /\ FrameIdle
  /\ \E name \in {"valJoin", "valMeet", "kernelJoin", "kernelMeet"} :
       \E s \in LibraryScales :
         LET r == latticeOperation(name, isFree(this), this, other, s, persistence,
                                   <<1, thresholdDen>>)
             joined == [error |-> IF r.error THEN "Failed to rescale" ELSE "",
                          result |-> IF r.error THEN <<>> ELSE r.result]
         IN ret' = [FrameRet EXCEPT !.op = name, !.error = joined.error,
                                    !.result = joined.result,
                                    !.alias = newInstance(this, joined)]
  /\ UNCHANGED <<this, other, args>>

\* fromPrefix of the class of the receiver on a prefix of the receiver.
FrameFromPrefix ==
  /\ FrameIdle
  /\ \E rank \in 1..this.algebra :
       LET r == [error |-> "",
                 result |-> IF isFree(this)
                            THEN freeFromPrefix(rank, rankPrefix(this, rank), this.jip)
                            ELSE fromPrefix(rank, rankPrefix(this, rank),
                                            this.subgroup)]
       IN ret' = [FrameRet EXCEPT !.op = "fromPrefix", !.result = r.result,
                                  !.alias = newInstance(this, r)]
  /\ UNCHANGED <<this, other, args>>

\* canonize() on the receiver or on the other operand.
FrameCanonize ==
  /\ FrameIdle
  /\ \/ /\ this' = canonize(this)
        /\ other' = other
        /\ ret' = [FrameRet EXCEPT !.op = "canonize", !.target = "this"]
     \/ /\ this' = this
        /\ other' = canonize(other)
        /\ ret' = [FrameRet EXCEPT !.op = "canonize", !.target = "other"]
  /\ UNCHANGED args

\* canonize() on the temperament just returned: its value changes in
\* place, and with it the value of an operand that is the same object.
FrameCanonizeResult ==
  /\ FrameIdle
  /\ ret.op \in {"valJoin", "valMeet", "kernelJoin", "kernelMeet", "fromPrefix"}
  /\ ret.error = ""
  /\ ret' = [ret EXCEPT !.op = "canonize", !.target = "result",
                        !.result = canonize(ret.result)]
  /\ this' = IF ret.alias = "this" THEN canonize(this) ELSE this
  /\ UNCHANGED <<other, args>>

FrameNext ==
  \/ FrameGetMapping
  \/ FrameTune
  \/ FrameSteps
  \/ FramePeriodGenerator
  \/ FrameGenerators
  \/ FrameNumPeriodsGenerator
  \/ FrameFractionalGenerators
  \/ FrameRankPrefix
  \/ FrameBasisMapping
  \/ FrameValFactorize
  \/ FactorNext
  \/ FrameEquals
  \/ FrameLattice
  \/ FrameFromPrefix
  \/ FrameCanonize
  \/ FrameCanonizeResult

SpecFrame == FrameInit /\ [][FrameNext]_vars

\* C25: canonize is the only operation that changes the value of an
\* existing temperament, and it changes the temperament it is called on
\* only; every other operation leaves the value and the basis of the
\* receiver and of the other operand as they are, also when it throws; and
\* valJoin, valMeet and fromPrefix return a temperament that is an object
\* of its own.
C25_Immutable ==
  [][ /\ (ret'.op # "canonize" \/ ret'.target # "this") => this' = this
      /\ (ret'.op # "canonize" \/ ret'.target # "other") => other' = other
      /\ ret'.op = "canonize" =>
           /\ [this' EXCEPT !.value = this.value] = this
           /\ [other' EXCEPT !.value = other.value] = other
      /\ (ret'.op \in {"valJoin", "valMeet", "kernelJoin", "kernelMeet", "fromPrefix"}
            /\ ret'.error = "") => ret'.alias = "none" ]_vars

\* The temperament returned has been canonized to the canonical form of
\* the receiver, and the receiver is not in canonical form.
C25_Witness ==
  /\ ret.op = "canonize"
  /\ ret.target = "result"
  /\ ret.result = canonize(this)
  /\ this # canonize(this)

====
